---- MODULE Spec2Model ----
(***************************************************************************)
(* Chunk-to-document reconciliation and citation subsystem of the          *)
(* mtr-chatbot repository.                                                 *)
(*                                                                         *)
(* Strings are sequences of one-character strings; positions are 0-based   *)
(* as in the Python source.  match_score is kept in tenths (1.0 = 10,      *)
(* 0.8 = 8, 0.6 = 6, 0.0 = 0).                                             *)
(***************************************************************************)
EXTENDS Integers, Sequences, FiniteSets, TLC

VARIABLES
    original_text,   \* DatabaseChunkViewer.original_text
    stored_chunks,   \* DatabaseChunkViewer.stored_chunks
    chunk_mappings,  \* DatabaseChunkViewer.chunk_mappings
    located,         \* result of the last direct _find_chunk_position call
    response,        \* the last response returned by a chunk-viewer route
    textdb,          \* the records of the collection "textdb"
    imgdb,           \* the records of the collection "imgdb"
    vpc,             \* which scenario drives the viewer object
    qpc,             \* position of the chat handler in the current query
    question,        \* user_input
    text_chunks,     \* text_chunks returned by get_knowledge
    image_chunks,    \* image_chunks returned by get_knowledge
    complete_prompt, \* build_prompt_with_citations(...)[0]
    citation_context, \* build_prompt_with_citations(...)[1]
    display_response, \* the response text handed to the extractor
    citations_used,  \* extract_citations_from_response(...)
    rendered_sources, \* what format_citations_interactive wrote to the page
    messages,        \* st.session_state.messages
    session_store,   \* get_model._session_store: session id -> messages
    session_id,      \* the session id of the call being handled
    req,             \* the /api/load requests in progress, per client
    hl,              \* the locals of a highlight loop in progress
    stream,          \* the locals of the streaming loop of the chat handler
    chat_sessions,   \* st.session_state.chat_sessions
    current_chat_index, \* st.session_state.current_chat_index
    lists,           \* the list objects of the chats: identity -> content
    called           \* the last direct call of a function and its outcome

viewer_vars == <<original_text, stored_chunks, chunk_mappings>>
db_vars == <<textdb, imgdb>>
chat_vars == <<qpc, question, text_chunks, image_chunks, complete_prompt,
               citation_context, display_response, citations_used,
               rendered_sources, messages, session_store, session_id>>
front_vars == <<stream, chat_sessions, current_chat_index, lists, called>>
vars == <<original_text, stored_chunks, chunk_mappings, located, response,
          textdb, imgdb, vpc, qpc, question, text_chunks, image_chunks,
          complete_prompt, citation_context, display_response, citations_used,
          rendered_sources, messages, session_store, session_id, req, hl,
          stream, chat_sessions, current_chat_index, lists, called>>

(***************************************************************************)
(* Bounds of the input spaces.                                             *)
(***************************************************************************)
MaxLen == 3      \* longest exhaustively enumerated text
MaxTail == 2     \* longest tail appended to a long run of "a"
MaxTextChunks == 2   \* most text records returned by textdb.get()
MaxImgChunks == 1    \* most image/table records returned by imgdb.get()
MaxRespTokens == 3   \* longest model response, in pieces of ResponseTokens
MaxCiteTexts == 2    \* most text fragments handed to the citation functions
MaxCiteImages == 1   \* most non-text fragments handed to them
MaxHistory == 3      \* most messages in all the session histories
MaxHistoryChunks == 1  \* most fragments of one kind saved by one call

(***************************************************************************)
(* Program constants.                                                      *)
(***************************************************************************)
PrefixLen == 50  \* chunk_content[:50]
NTextResults == 3    \* textdb.query(n_results=3)
NImageResults == 2   \* imagedb.query(n_results=2)
CitationPreviewLen == 200  \* chunk.get("content", "")[:200]

Chars == {"a", "b", " ", "\n"}
Whitespace == {" ", "\n", "\t", "\r"}

Min(a, b) == IF a <= b THEN a ELSE b
Max(a, b) == IF a >= b THEN a ELSE b

Strs(n) == UNION {[1..k -> Chars] : k \in 0..n}

Rep(c, n) == [i \in 1..n |-> c]

(***************************************************************************)
(* Python string primitives.                                               *)
(***************************************************************************)
\* s[a:b] for 0 <= a, 0 <= b (clamped to the length of s)
Slice(s, a, b) ==
    IF a >= Min(b, Len(s)) THEN <<>> ELSE SubSeq(s, a + 1, Min(b, Len(s)))

\* s.startswith(sub, i)
MatchAt(s, sub, i) ==
    /\ i >= 0
    /\ i + Len(sub) <= Len(s)
    /\ \A k \in 1..Len(sub) : s[i + k] = sub[k]

\* s.rfind(sub, from): the highest index instead of the lowest
FindLast(s, sub, from) ==
    LET hits == {i \in from..Len(s) : MatchAt(s, sub, i)}
    IN  IF hits = {} THEN -1
        ELSE CHOOSE i \in hits : \A j \in hits : j <= i

\* s.find(sub, from): the lowest index >= from where sub occurs, else -1
Find(s, sub, from) ==
    LET hits == {i \in from..Len(s) : MatchAt(s, sub, i)}
    IN  IF hits = {} THEN -1
        ELSE CHOOSE i \in hits : \A j \in hits : i <= j

RECURSIVE LStrip(_)
LStrip(s) ==
    IF s # <<>> /\ Head(s) \in Whitespace THEN LStrip(Tail(s)) ELSE s

RECURSIVE RStrip(_)
RStrip(s) ==
    IF s # <<>> /\ s[Len(s)] \in Whitespace
    THEN RStrip(SubSeq(s, 1, Len(s) - 1))
    ELSE s

\* s.lstrip() in place of s.strip()
StripLeadingOnly(s) == LStrip(s)

\* s.strip()
Strip(s) == RStrip(LStrip(s))

\* s.split('\n'): always at least one (possibly empty) line
RECURSIVE SplitLines(_)
SplitLines(s) ==
    LET nl == Find(s, <<"\n">>, 0)
    IN  IF nl = -1 THEN <<s>>
        ELSE <<Slice(s, 0, nl)>> \o SplitLines(Slice(s, nl + 1, Len(s)))

(***************************************************************************)
(* StoredChunk / ChunkMapping                                              *)
(***************************************************************************)
StoredChunk(content, chunk_id, chunk_type) ==
    [content |-> content, chunk_id |-> chunk_id, chunk_type |-> chunk_type]

ChunkMapping(chunk, start_pos, end_pos, match_score) ==
    [stored_chunk |-> chunk, start_pos |-> start_pos, end_pos |-> end_pos,
     match_score |-> match_score]

(***************************************************************************)
(* DatabaseChunkViewer._find_chunk_position                                *)
(***************************************************************************)
\* the prefix probe tried before the bracketing probe
find_chunk_position_prefix_first(text, chunk) ==
    LET chunk_content == Strip(chunk.content)
        start_pos     == Find(text, chunk_content, 0)
        lines         == SplitLines(chunk_content)
        first_line    == Strip(lines[1])
        last_line     == Strip(lines[Len(lines)])
        first_pos     == Find(text, first_line, 0)
        search_start  == first_pos + Len(first_line)
        last_pos      == Find(text, last_line, search_start)
        prefix        == Strip(Slice(chunk_content, 0, PrefixLen))
        pos           == Find(text, prefix, 0)
        estimated_end == pos + Len(chunk_content)
    IN  IF start_pos # -1
        THEN ChunkMapping(chunk, start_pos, start_pos + Len(chunk_content), 10)
        ELSE IF prefix # <<>> /\ pos # -1
        THEN ChunkMapping(chunk, pos, Min(estimated_end, Len(text)), 6)
        ELSE IF Len(lines) >= 2 /\ first_pos # -1 /\ last_pos # -1
        THEN ChunkMapping(chunk, first_pos, last_pos + Len(last_line), 8)
        ELSE ChunkMapping(chunk, -1, -1, 0)

\* the last line is searched from the start of the document
find_chunk_position_last_from_zero(text, chunk) ==
    LET chunk_content == Strip(chunk.content)
        start_pos     == Find(text, chunk_content, 0)
        lines         == SplitLines(chunk_content)
        first_line    == Strip(lines[1])
        last_line     == Strip(lines[Len(lines)])
        first_pos     == Find(text, first_line, 0)
        last_pos      == Find(text, last_line, 0)
        prefix        == Strip(Slice(chunk_content, 0, PrefixLen))
        pos           == Find(text, prefix, 0)
        estimated_end == pos + Len(chunk_content)
    IN  IF start_pos # -1
        THEN ChunkMapping(chunk, start_pos, start_pos + Len(chunk_content), 10)
        ELSE IF Len(lines) >= 2 /\ first_pos # -1 /\ last_pos # -1
        THEN ChunkMapping(chunk, first_pos, last_pos + Len(last_line), 8)
        ELSE IF prefix # <<>> /\ pos # -1
        THEN ChunkMapping(chunk, pos, Min(estimated_end, Len(text)), 6)
        ELSE ChunkMapping(chunk, -1, -1, 0)

\* the end is estimated from the untrimmed content
find_chunk_position_raw_length(text, chunk) ==
    LET chunk_content == Strip(chunk.content)
        start_pos     == Find(text, chunk_content, 0)
        lines         == SplitLines(chunk_content)
        first_line    == Strip(lines[1])
        last_line     == Strip(lines[Len(lines)])
        first_pos     == Find(text, first_line, 0)
        search_start  == first_pos + Len(first_line)
        last_pos      == Find(text, last_line, search_start)
        prefix        == Strip(Slice(chunk_content, 0, PrefixLen))
        pos           == Find(text, prefix, 0)
        estimated_end == pos + Len(chunk.content)
    IN  IF start_pos # -1
        THEN ChunkMapping(chunk, start_pos, start_pos + Len(chunk_content), 10)
        ELSE IF Len(lines) >= 2 /\ first_pos # -1 /\ last_pos # -1
        THEN ChunkMapping(chunk, first_pos, last_pos + Len(last_line), 8)
        ELSE IF prefix # <<>> /\ pos # -1
        THEN ChunkMapping(chunk, pos, Min(estimated_end, Len(text)), 6)
        ELSE ChunkMapping(chunk, -1, -1, 0)

find_chunk_position(text, chunk) ==
    LET chunk_content == Strip(chunk.content)
        start_pos     == Find(text, chunk_content, 0)
        lines         == SplitLines(chunk_content)
        first_line    == Strip(lines[1])
        last_line     == Strip(lines[Len(lines)])
        first_pos     == Find(text, first_line, 0)
        search_start  == first_pos + Len(first_line)
        last_pos      == Find(text, last_line, search_start)
        prefix        == Strip(Slice(chunk_content, 0, PrefixLen))
        pos           == Find(text, prefix, 0)
        estimated_end == pos + Len(chunk_content)
    IN  IF start_pos # -1
        THEN ChunkMapping(chunk, start_pos, start_pos + Len(chunk_content), 10)
        ELSE IF Len(lines) >= 2 /\ first_pos # -1 /\ last_pos # -1
        THEN ChunkMapping(chunk, first_pos, last_pos + Len(last_line), 8)
        ELSE IF prefix # <<>> /\ pos # -1
        THEN ChunkMapping(chunk, pos, Min(estimated_end, Len(text)), 6)
        ELSE ChunkMapping(chunk, -1, -1, 0)

(***************************************************************************)
(* Specification of the span locator: the inputs are drawn from bounded    *)
(* sets and one call of _find_chunk_position is applied to them.           *)
(***************************************************************************)
LongTexts == {Rep("a", PrefixLen - 1) \o t : t \in Strs(MaxTail)}
\* texts in which a 50-character prefix occurs after the start of the
\* document, before its end, and a fragment with whitespace around it
PrefixProbeTexts ==
    { <<"b">> \o Rep("a", PrefixLen - 1) \o <<"a", "a", "a">>,
      <<"b">> \o Rep("a", PrefixLen - 1),
      <<" ">> \o Rep("a", PrefixLen - 1) \o <<" ", "b">> }
LocateTexts == Strs(MaxLen) \cup LongTexts \cup PrefixProbeTexts

NoMapping == [none |-> TRUE]
NoResponse == [kind |-> "none"]

\* {}
EmptyDict == [k \in {} |-> k]

\* no /api/load request is in progress and no highlight loop is running
NoRequests == EmptyDict
NoWalk == [pc |-> "none"]

\* no streaming loop is running and no function has been called directly
NoStream == [pc |-> "none"]
NoCall == [op |-> "none"]

\* the session state of the front end has not been initialised
FrontIdle ==
    /\ stream = NoStream
    /\ chat_sessions = EmptyDict
    /\ current_chat_index = 0
    /\ lists = EmptyDict
    /\ called = NoCall

\* no query is being handled: the locals of the chat handler do not exist
ChatIdle ==
    /\ FrontIdle
    /\ qpc = "idle"
    /\ question = <<>>
    /\ text_chunks = <<>>
    /\ image_chunks = <<>>
    /\ complete_prompt = <<>>
    /\ citation_context = <<>>
    /\ display_response = <<>>
    /\ citations_used = <<>>
    /\ rendered_sources = <<>>
    /\ messages = <<>>
    /\ session_store = EmptyDict
    /\ session_id = ""

InitLocate ==
    /\ original_text \in LocateTexts
    /\ \E c \in LocateTexts : stored_chunks = <<StoredChunk(c, "c1", "text")>>
    /\ chunk_mappings = <<>>
    /\ located = NoMapping
    /\ response = NoResponse
    /\ textdb = <<>>
    /\ imgdb = <<>>
    /\ vpc = "locate"
    /\ req = NoRequests
    /\ hl = NoWalk
    /\ ChatIdle

LocateChunk ==
    /\ vpc = "locate"
    /\ located = NoMapping
    /\ located' = find_chunk_position(original_text, stored_chunks[1])
    /\ UNCHANGED <<viewer_vars, db_vars, response, vpc, chat_vars, req, hl,
                   front_vars>>

NextLocate == LocateChunk

SpecLocate == InitLocate /\ [][NextLocate]_vars

(***************************************************************************)
(* DatabaseChunkViewer: loading, mapping and highlighting                  *)
(***************************************************************************)
\* the chunks built from the records of textdb.get() and imgdb.get()
TextChunksOf(text_results) ==
    [i \in 1..Len(text_results) |->
        StoredChunk(text_results[i].doc, text_results[i].id, "text")]

ImgChunksOf(img_results) ==
    [i \in 1..Len(img_results) |->
        StoredChunk(img_results[i].doc, img_results[i].id, img_results[i].type)]

\* every chunk is sent to the locator, whatever its type
MapOne_locate_all(text, chunk) == find_chunk_position(text, chunk)

\* the body of the loop of map_chunks_to_document for one chunk
MapOne(text, chunk) ==
    IF chunk.chunk_type = "text"
    THEN find_chunk_position(text, chunk)
    ELSE ChunkMapping(chunk, -1, -1, 10)

\* the mappings are prepended instead of appended
map_chunks_to_document_reversed(text, chunks) ==
    IF text = <<>> \/ chunks = <<>> THEN <<>>
    ELSE [i \in 1..Len(chunks) |-> MapOne(text, chunks[Len(chunks) + 1 - i])]

\* map_chunks_to_document: the new value of chunk_mappings
map_chunks_to_document(text, chunks) ==
    IF text = <<>> \/ chunks = <<>> THEN <<>>
    ELSE [i \in 1..Len(chunks) |-> MapOne(text, chunks[i])]

\* [m for m in ms if m.start_pos >= 0]
RECURSIVE ValidMappings(_)
ValidMappings(ms) ==
    IF ms = <<>> THEN <<>>
    ELSE IF Head(ms).start_pos >= 0
         THEN <<Head(ms)>> \o ValidMappings(Tail(ms))
         ELSE ValidMappings(Tail(ms))

\* insertion of m after the last element whose start_pos is <= m.start_pos
RECURSIVE InsertByStart(_, _)
InsertByStart(sorted, m) ==
    IF sorted = <<>> THEN <<m>>
    ELSE IF Head(sorted).start_pos <= m.start_pos
         THEN <<Head(sorted)>> \o InsertByStart(Tail(sorted), m)
         ELSE <<m>> \o sorted

\* sorted(ms, key=lambda x: x.start_pos): stable
RECURSIVE SortByStart(_)
SortByStart(ms) ==
    IF ms = <<>> THEN <<>>
    ELSE InsertByStart(SortByStart(SubSeq(ms, 1, Len(ms) - 1)), ms[Len(ms)])

TextSegment(text, start, end) ==
    [type |-> "text", content |-> Slice(text, start, end),
     start |-> start, end |-> end]

ChunkSegment(text, mapping, i) ==
    [type |-> "chunk",
     content |-> Slice(text, mapping.start_pos, mapping.end_pos),
     start |-> mapping.start_pos, end |-> mapping.end_pos,
     chunk_index |-> i,
     chunk_id |-> mapping.stored_chunk.chunk_id,
     chunk_type |-> mapping.stored_chunk.chunk_type,
     match_score |-> mapping.match_score]

\* the loop of get_highlighted_document over sorted_mappings[i..], i 1-based
RECURSIVE HighlightLoop(_, _, _, _, _)
HighlightLoop(text, sorted, i, last_end, segments) ==
    IF i > Len(sorted) THEN [segments |-> segments, last_end |-> last_end]
    ELSE LET mapping == sorted[i]
             before  == IF mapping.start_pos > last_end
                        THEN <<TextSegment(text, last_end, mapping.start_pos)>>
                        ELSE <<>>
         IN  HighlightLoop(text, sorted, i + 1, mapping.end_pos,
                 segments \o before \o <<ChunkSegment(text, mapping, i - 1)>>)

\* the text after the last chunk is not emitted
get_highlighted_document_no_rest(text, mappings) ==
    IF mappings = <<>> \/ text = <<>>
    THEN [original_text |-> text, highlighted_segments |-> <<>>]
    ELSE LET sorted_mappings == SortByStart(ValidMappings(mappings))
             walk == HighlightLoop(text, sorted_mappings, 1, 0, <<>>)
         IN  [original_text |-> text, segments |-> walk.segments]

\* DatabaseChunkViewer.get_highlighted_document
get_highlighted_document(text, mappings) ==
    IF mappings = <<>> \/ text = <<>>
    THEN [original_text |-> text, highlighted_segments |-> <<>>]
    ELSE LET sorted_mappings == SortByStart(ValidMappings(mappings))
             walk == HighlightLoop(text, sorted_mappings, 1, 0, <<>>)
             rest == IF walk.last_end < Len(text)
                     THEN <<TextSegment(text, walk.last_end, Len(text))>>
                     ELSE <<>>
         IN  [original_text |-> text, segments |-> walk.segments \o rest]

\* DatabaseChunkViewer.get_chunks_data
get_chunks_data(mappings) ==
    [i \in 1..Len(mappings) |->
        [index |-> i - 1,
         chunk_id |-> mappings[i].stored_chunk.chunk_id,
         content |-> mappings[i].stored_chunk.content,
         chunk_type |-> mappings[i].stored_chunk.chunk_type,
         start_pos |-> mappings[i].start_pos,
         end_pos |-> mappings[i].end_pos,
         match_score |-> mappings[i].match_score]]

\* len([x for x in xs if P(x)])
CountText(chunks) == Cardinality({i \in 1..Len(chunks) : chunks[i].chunk_type = "text"})
CountMapped(mappings) == Cardinality({i \in 1..Len(mappings) : mappings[i].start_pos >= 0})

\* the stats of a successful /api/load
LoadStats(markdown_content, chunks, mappings) ==
    [document_length |-> Len(markdown_content),
     total_chunks |-> Len(chunks),
     text_chunks |-> CountText(chunks),
     mapped_chunks |-> CountMapped(mappings),
     unmapped_chunks |-> Len(chunks) - CountMapped(mappings)]

(***************************************************************************)
(* The Flask chunk viewer: one DatabaseChunkViewer object behind the       *)
(* routes /api/load, /api/document and /api/chunks.  The markdown file     *)
(* and the two collections are inputs of each /api/load request.           *)
(***************************************************************************)
Doc1 == <<"A", "B", "C", "D", "E", "F", "G", "H", "I", "J">>
Doc2 == <<"C", "D", "E", "F", "G">>

\* the markdown files a request can name
ViewerDocs == {<<>>, Doc1, Doc2}

ViewerContents ==
    { <<"C", "D", "E">>,
      <<"E", "F", "G">>,
      <<"B", "C", "D", "E", "F">>,
      <<"X", "Y">>,
      <<" ", "H", "I", "\n">>,
      <<"C", "\n", "E">>,
      <<" ">> }

\* ids are the keys of a collection: unique within it
WithIds(results, tag) ==
    [i \in 1..Len(results) |-> [results[i] EXCEPT !.id = <<tag, i>>]]

\* the possible contents of textdb.get()
TextResults ==
    {WithIds(r, "t") :
        r \in UNION {[1..n -> [doc : ViewerContents, id : {<<>>}]]
                        : n \in 0..MaxTextChunks}}

\* the possible contents of imgdb.get()
ImgResults ==
    {WithIds(r, "i") :
        r \in UNION {[1..n -> [doc : {<<"C", "D", "E">>},
                               type : {"image", "table"}, id : {<<>>}]]
                        : n \in 0..MaxImgChunks}}

InitViewer ==
    /\ original_text = <<>>
    /\ stored_chunks = <<>>
    /\ chunk_mappings = <<>>
    /\ located = NoMapping
    /\ response = NoResponse
    /\ textdb \in TextResults
    /\ imgdb \in ImgResults
    /\ vpc = "viewer"
    /\ req = NoRequests
    /\ hl = NoWalk
    /\ ChatIdle

\* POST /api/load, the file cannot be read: nothing is loaded
LoadDataNoFile ==
    /\ vpc = "viewer"
    /\ response' = [kind |-> "load", success |-> FALSE, error |-> "open"]
    /\ UNCHANGED <<viewer_vars, db_vars, located, req, hl, vpc, chat_vars,
                   front_vars>>

\* POST /api/load, textdb.get() raises: load_stored_chunks returns False
\* with no chunk stored
LoadDataTextdbFails ==
    /\ vpc = "viewer"
    /\ \E markdown_content \in ViewerDocs : original_text' = markdown_content
    /\ stored_chunks' = <<>>
    /\ response' = [kind |-> "load", success |-> FALSE, error |-> "chunks"]
    /\ UNCHANGED <<chunk_mappings, db_vars, located, req, hl, vpc, chat_vars,
                   front_vars>>

\* POST /api/load, imgdb.get() raises: load_stored_chunks returns False
\* with the text chunks stored
LoadDataImgdbFails ==
    /\ vpc = "viewer"
    /\ \E markdown_content \in ViewerDocs : original_text' = markdown_content
    /\ stored_chunks' = TextChunksOf(textdb)
    /\ response' = [kind |-> "load", success |-> FALSE, error |-> "chunks"]
    /\ UNCHANGED <<chunk_mappings, db_vars, located, req, hl, vpc, chat_vars,
                   front_vars>>

\* POST /api/load, everything loads: document, chunks, mapping, statistics
LoadData ==
    /\ vpc = "viewer"
    /\ \E markdown_content \in ViewerDocs :
          LET chunks == TextChunksOf(textdb) \o ImgChunksOf(imgdb)
              mappings == map_chunks_to_document(markdown_content, chunks)
          IN  /\ original_text' = markdown_content
              /\ stored_chunks' = chunks
              /\ chunk_mappings' = mappings
              /\ response' = [kind |-> "load", success |-> TRUE,
                              stats |-> LoadStats(markdown_content, chunks, mappings)]
    /\ UNCHANGED <<db_vars, located, req, hl, vpc, chat_vars, front_vars>>

\* GET /api/document
GetDocument ==
    /\ vpc = "viewer"
    /\ response' = [kind |-> "document",
                    body |-> get_highlighted_document(original_text, chunk_mappings)]
    /\ UNCHANGED <<viewer_vars, db_vars, located, req, hl, vpc, chat_vars,
                   front_vars>>

\* GET /api/chunks
GetChunks ==
    /\ vpc = "viewer"
    /\ response' = [kind |-> "chunks", body |-> get_chunks_data(chunk_mappings)]
    /\ UNCHANGED <<viewer_vars, db_vars, located, req, hl, vpc, chat_vars,
                   front_vars>>

NextViewer ==
    \/ LoadDataNoFile
    \/ LoadDataTextdbFails
    \/ LoadDataImgdbFails
    \/ LoadData
    \/ GetDocument
    \/ GetChunks

SpecViewer == InitViewer /\ [][NextViewer]_vars

(***************************************************************************)
(* The Flask chunk viewer serving two clients at once.  The development    *)
(* server runs every request in a thread of its own and all the requests   *)
(* use the one module-level viewer object, so the statements of load_data  *)
(* of one request interleave with the requests of the other client.  Each  *)
(* client loads a document of its own and then reads.                      *)
(***************************************************************************)
Clients == {"client_1", "client_2"}

\* the markdown file each client names in its /api/load request
DocumentOf(c) == IF c = "client_1" THEN Doc1 ELSE Doc2

InitViewerShared ==
    /\ original_text = <<>>
    /\ stored_chunks = <<>>
    /\ chunk_mappings = <<>>
    /\ located = NoMapping
    /\ response = NoResponse
    /\ textdb \in TextResults
    /\ imgdb \in ImgResults
    /\ vpc = "viewer_shared"
    /\ req = NoRequests
    /\ hl = NoWalk
    /\ ChatIdle

\* the request of client c has reached position pc of load_data
At(c, pc) == c \in DOMAIN req /\ req[c].pc = pc

Goto(c, pc) == req' = [req EXCEPT ![c].pc = pc]

\* POST /api/load arrives: markdown_content = f.read()
LoadReadFile(c) ==
    /\ vpc = "viewer_shared"
    /\ c \notin DOMAIN req
    /\ req' = [k \in DOMAIN req \cup {c} |->
                 IF k = c THEN [pc |-> "read", markdown_content |-> DocumentOf(c)]
                 ELSE req[k]]
    /\ UNCHANGED <<viewer_vars, db_vars, located, hl, response, vpc, chat_vars,
                   front_vars>>

\* viewer.load_document(markdown_content)
LoadDocument(c) ==
    /\ vpc = "viewer_shared"
    /\ At(c, "read")
    /\ original_text' = req[c].markdown_content
    /\ Goto(c, "document")
    /\ UNCHANGED <<stored_chunks, chunk_mappings, db_vars, located, hl, response,
                   vpc, chat_vars, front_vars>>

\* viewer.load_stored_chunks()
LoadStoredChunks(c) ==
    /\ vpc = "viewer_shared"
    /\ At(c, "document")
    /\ stored_chunks' = TextChunksOf(textdb) \o ImgChunksOf(imgdb)
    /\ Goto(c, "chunks")
    /\ UNCHANGED <<original_text, chunk_mappings, db_vars, located, hl, response,
                   vpc, chat_vars, front_vars>>

\* viewer.map_chunks_to_document()
MapChunks(c) ==
    /\ vpc = "viewer_shared"
    /\ At(c, "chunks")
    /\ chunk_mappings' = map_chunks_to_document(original_text, stored_chunks)
    /\ Goto(c, "mapped")
    /\ UNCHANGED <<original_text, stored_chunks, db_vars, located, hl, response,
                   vpc, chat_vars, front_vars>>

\* the statistics are computed and the response of /api/load is returned
LoadReturn(c) ==
    /\ vpc = "viewer_shared"
    /\ At(c, "mapped")
    /\ response' = [kind |-> "load", client |-> c, success |-> TRUE,
                    stats |-> LoadStats(req[c].markdown_content, stored_chunks,
                                        chunk_mappings)]
    /\ Goto(c, "loaded")
    /\ UNCHANGED <<viewer_vars, db_vars, located, hl, vpc, chat_vars,
                   front_vars>>

\* GET /api/document by a client whose load has returned
ReadDocument(c) ==
    /\ vpc = "viewer_shared"
    /\ At(c, "loaded")
    /\ response' = [kind |-> "document", client |-> c,
                    body |-> get_highlighted_document(original_text, chunk_mappings)]
    /\ UNCHANGED <<viewer_vars, db_vars, located, req, hl, vpc, chat_vars,
                   front_vars>>

\* GET /api/chunks by a client whose load has returned
ReadChunks(c) ==
    /\ vpc = "viewer_shared"
    /\ At(c, "loaded")
    /\ response' = [kind |-> "chunks", client |-> c,
                    body |-> get_chunks_data(chunk_mappings)]
    /\ UNCHANGED <<viewer_vars, db_vars, located, req, hl, vpc, chat_vars,
                   front_vars>>

NextViewerShared ==
    \E c \in Clients :
        \/ LoadReadFile(c)
        \/ LoadDocument(c)
        \/ LoadStoredChunks(c)
        \/ MapChunks(c)
        \/ LoadReturn(c)
        \/ ReadDocument(c)
        \/ ReadChunks(c)

SpecViewerShared == InitViewerShared /\ [][NextViewerShared]_vars

(***************************************************************************)
(* The highlight loops of the two viewers, one iteration at a time:        *)
(* get_highlighted_document of the Flask viewer builds a list of segments, *)
(* get_highlighted_text of the Streamlit viewer builds an HTML string,     *)
(* kept here as the sequence of the pieces appended to it.  Both walk the  *)
(* valid mappings sorted by start_pos and keep last_end.  The viewer has   *)
(* loaded a document and mapped the stored fragments when the loop starts. *)
(***************************************************************************)
Implementations == {"flask", "streamlit"}

\* _escape_html, character by character
EscapeChar(c) ==
    CASE c = "&"  -> "&amp;"
      [] c = "<"  -> "&lt;"
      [] c = ">"  -> "&gt;"
      [] c = "\"" -> "&quot;"
      [] c = "'"  -> "&#x27;"
      [] c = "\n" -> "<br>"
      [] OTHER    -> c

_escape_html(text) == [k \in 1..Len(text) |-> EscapeChar(text[k])]

\* _get_confidence_indicator, by the meaning of the symbol returned
_get_confidence_indicator(score) ==
    IF score >= 10 THEN "perfect match"
    ELSE IF score >= 8 THEN "good match"
    ELSE IF score >= 6 THEN "partial match"
    ELSE "no match"

\* highlighted += self._escape_html(original_text[start:end])
HtmlText(text, start, end) ==
    [html |-> "text", content |-> _escape_html(Slice(text, start, end)),
     start |-> start, end |-> end]

\* the <div> appended for the i-th mapping (i 0-based)
HtmlChunk(text, mapping, i) ==
    [html |-> "div", id |-> i, number |-> i + 1,
     chunk_type |-> mapping.stored_chunk.chunk_type,
     chars |-> Len(mapping.stored_chunk.content),
     confidence |-> _get_confidence_indicator(mapping.match_score),
     chunk_id |-> mapping.stored_chunk.chunk_id,
     content |-> IF mapping.end_pos > mapping.start_pos
                 THEN _escape_html(Slice(text, mapping.start_pos, mapping.end_pos))
                 ELSE <<"[Content not found in original document]">>]

\* the value of last_end at the end of one iteration
NextLastEnd(impl, last_end, mapping) ==
    IF impl = "flask" THEN mapping.end_pos
    ELSE IF mapping.end_pos > 0 THEN Max(last_end, mapping.end_pos)
         ELSE last_end

PlainPiece(impl, text, start, end) ==
    IF impl = "flask" THEN TextSegment(text, start, end)
    ELSE HtmlText(text, start, end)

ChunkPiece(impl, text, mapping, i) ==
    IF impl = "flask" THEN ChunkSegment(text, mapping, i)
    ELSE HtmlChunk(text, mapping, i)

InitHighlight ==
    /\ textdb \in TextResults
    /\ imgdb \in ImgResults
    /\ original_text \in {Doc1, Doc2}
    /\ stored_chunks = TextChunksOf(textdb) \o ImgChunksOf(imgdb)
    /\ chunk_mappings = map_chunks_to_document(original_text, stored_chunks)
    /\ located = NoMapping
    /\ response = NoResponse
    /\ vpc = "highlight"
    /\ req = NoRequests
    /\ hl = NoWalk
    /\ ChatIdle

\* nothing to highlight: the early return of both functions
HighlightEmpty(impl) ==
    /\ vpc = "highlight"
    /\ hl.pc = "none"
    /\ chunk_mappings = <<>> \/ original_text = <<>>
    /\ hl' = [pc |-> "done", impl |-> impl, last_end |-> 0,
              out |-> IF impl = "flask" THEN <<>>
                      ELSE <<HtmlText(original_text, 0, Len(original_text))>>]
    /\ UNCHANGED <<viewer_vars, db_vars, located, req, response, vpc, chat_vars,
                   front_vars>>

\* sorted_mappings is computed, last_end = 0 and the output is empty
HighlightBegin(impl) ==
    /\ vpc = "highlight"
    /\ hl.pc = "none"
    /\ chunk_mappings # <<>> /\ original_text # <<>>
    /\ hl' = [pc |-> "loop", impl |-> impl,
              sorted_mappings |-> SortByStart(ValidMappings(chunk_mappings)),
              i |-> 0, last_end |-> 0, out |-> <<>>]
    /\ UNCHANGED <<viewer_vars, db_vars, located, req, response, vpc, chat_vars,
                   front_vars>>

\* one iteration of "for i, mapping in enumerate(sorted_mappings)"
HighlightStep ==
    /\ vpc = "highlight"
    /\ hl.pc = "loop"
    /\ hl.i < Len(hl.sorted_mappings)
    /\ LET mapping == hl.sorted_mappings[hl.i + 1]
           before  == IF mapping.start_pos > hl.last_end
                      THEN <<PlainPiece(hl.impl, original_text, hl.last_end,
                                        mapping.start_pos)>>
                      ELSE <<>>
       IN  hl' = [hl EXCEPT
                    !.out = @ \o before
                              \o <<ChunkPiece(hl.impl, original_text, mapping, hl.i)>>,
                    !.last_end = NextLastEnd(hl.impl, @, mapping),
                    !.i = @ + 1]
    /\ UNCHANGED <<viewer_vars, db_vars, located, req, response, vpc, chat_vars,
                   front_vars>>

\* the loop is over: the remaining text is added and the result returned
HighlightEnd ==
    /\ vpc = "highlight"
    /\ hl.pc = "loop"
    /\ hl.i = Len(hl.sorted_mappings)
    /\ hl' = [hl EXCEPT
                 !.pc = "done",
                 !.out = IF hl.last_end < Len(original_text)
                         THEN @ \o <<PlainPiece(hl.impl, original_text, hl.last_end,
                                                Len(original_text))>>
                         ELSE @]
    /\ UNCHANGED <<viewer_vars, db_vars, located, req, response, vpc, chat_vars,
                   front_vars>>

NextHighlight ==
    \/ \E impl \in Implementations : HighlightEmpty(impl)
    \/ \E impl \in Implementations : HighlightBegin(impl)
    \/ HighlightStep
    \/ HighlightEnd

SpecHighlight == InitHighlight /\ [][NextHighlight]_vars

(***************************************************************************)
(* Citation pipeline of backend.py.  A chunk is a record; its metadata is  *)
(* a dict, modelled as a function whose DOMAIN is the set of keys present. *)
(***************************************************************************)
Digits == <<"0", "1", "2", "3", "4", "5", "6", "7", "8", "9">>
IsDigit(c) == \E d \in 1..10 : Digits[d] = c
DigitVal(c) == (CHOOSE d \in 1..10 : Digits[d] = c) - 1

\* str(n) for n >= 0
RECURSIVE Dec(_)
Dec(n) == IF n < 10 THEN <<Digits[n + 1]>>
          ELSE Dec(n \div 10) \o <<Digits[(n % 10) + 1]>>

\* int(digits)
RECURSIVE ParseInt(_)
ParseInt(ds) ==
    IF ds = <<>> THEN 0
    ELSE 10 * ParseInt(SubSeq(ds, 1, Len(ds) - 1)) + DigitVal(ds[Len(ds)])

\* d.get(key, default)
Get(d, key, default) == IF key \in DOMAIN d THEN d[key] ELSE default

\* None: the metadata of a record that was stored without any
None == [NoneType |-> TRUE]
IsNone(v) == "NoneType" \in DOMAIN v

\* meta = chunk.get("metadata", {})
Meta(chunk) == IF "metadata" \in DOMAIN chunk THEN chunk.metadata ELSE EmptyDict

\* meta.get(...) on None: AttributeError
MetaGetRaises(chunk) == IsNone(Meta(chunk))

\* f"{meta.get('page_idx', default)}"
PageText(meta, default) ==
    IF "page_idx" \in DOMAIN meta THEN Dec(meta["page_idx"]) ELSE <<default>>

\* f"{meta.get('page_idx', '?')}"
PageStr(meta) ==
    IF "page_idx" \in DOMAIN meta THEN Dec(meta["page_idx"]) ELSE <<"?">>

\* str.capitalize() on the type names
Capitalize(t) ==
    CASE t = "image" -> "Image"
      [] t = "table" -> "Table"
      [] t = "text" -> "Text"
      [] OTHER -> t

\* sep.join(parts)
RECURSIVE Join(_, _)
Join(sep, parts) ==
    IF parts = <<>> THEN <<>>
    ELSE IF Len(parts) = 1 THEN parts[1]
    ELSE parts[1] \o sep \o Join(sep, Tail(parts))

\* the image chunks restart their numbering at 1
get_knowledge_restart(text_results, image_results) ==
    IF text_results = <<>> THEN [text |-> <<>>, image |-> <<>>]
    ELSE [text |-> [i \in 1..Len(text_results) |->
                      [content |-> text_results[i].doc,
                       metadata |-> text_results[i].meta,
                       chunk_id |-> text_results[i].id,
                       citation_num |-> (i - 1) + 1]],
          image |-> [i \in 1..Len(image_results) |->
                      [metadata |-> image_results[i].meta,
                       chunk_id |-> image_results[i].id,
                       citation_num |-> (i - 1) + 1]]]

\* get_knowledge, from the two query results on: text_results and
\* image_results are the records of documents[0] / metadatas[0] / ids[0]
get_knowledge(text_results, image_results) ==
    IF text_results = <<>> THEN [text |-> <<>>, image |-> <<>>]
    ELSE [text |-> [i \in 1..Len(text_results) |->
                      [content |-> text_results[i].doc,
                       metadata |-> text_results[i].meta,
                       chunk_id |-> text_results[i].id,
                       citation_num |-> (i - 1) + 1]],
          image |-> [i \in 1..Len(image_results) |->
                      [metadata |-> image_results[i].meta,
                       chunk_id |-> image_results[i].id,
                       citation_num |-> Len(text_results) + (i - 1) + 1]]]

\* the content cut to its first 500 characters
TextPart_preview(chunk) ==
    <<"[">> \o Dec(chunk.citation_num) \o <<"]", " (from ">>
        \o <<Get(Meta(chunk), "filename", "unknown")>>
        \o <<", page ">> \o PageStr(Meta(chunk))
        \o <<"):", "\n">> \o Slice(chunk.content, 0, 500)

\* f"[{citation_num}] (from {filename}, page {page}):\n{content}"
TextPart(chunk) ==
    <<"[">> \o Dec(chunk.citation_num) \o <<"]", " (from ">>
        \o <<Get(Meta(chunk), "filename", "unknown")>>
        \o <<", page ">> \o PageStr(Meta(chunk))
        \o <<"):", "\n">> \o chunk.content

\* f"[Source {citation_num}: {filename}, page {page}]\n
\*   {img_type.capitalize()} available for reference."
ImagePart(chunk) ==
    <<"[", "Source ">> \o Dec(chunk.citation_num) \o <<":", " ">>
        \o <<Get(Meta(chunk), "filename", "unknown")>>
        \o <<", page ">> \o PageStr(Meta(chunk))
        \o <<"]", "\n">>
        \o <<Capitalize(Get(Meta(chunk), "type", "image"))>>
        \o <<" available for reference.">>

ContextSeparator == <<"\n", "\n", "---", "\n", "\n">>

\* a placeholder line is returned when there is no fragment
create_citation_context_placeholder(texts, images) ==
    IF texts = <<>> /\ images = <<>> THEN <<"No sources available.">>
    ELSE Join(ContextSeparator,
              [i \in 1..Len(texts) |-> TextPart(texts[i])]
                 \o [i \in 1..Len(images) |-> ImagePart(images[i])])

\* create_citation_context
create_citation_context(texts, images) ==
    Join(ContextSeparator,
         [i \in 1..Len(texts) |-> TextPart(texts[i])]
            \o [i \in 1..Len(images) |-> ImagePart(images[i])])

Marker(n) == <<"[">> \o Dec(n) \o <<"]">>

\* build_prompt_with_citations: the f-string template around the
\* reference block and the question
build_prompt_with_citations(q, texts, images) ==
    LET ctx == create_citation_context(texts, images)
    IN  [complete_prompt |->
            <<"Answer the following question based on the provided reference sources.",
              "\n", "\n", "Reference sources available:", "\n">>
            \o ctx
            \o <<"\n", "\n", "Question: ">> \o q
            \o <<"\n", "\n", "CRITICAL INSTRUCTION FOR YOUR ANSWER:", "\n",
                 "When you write your answer, you MUST add citation numbers ">>
            \o Marker(1) \o <<", ">> \o Marker(2) \o <<", ">> \o Marker(3)
            \o <<" at the END of each sentence that uses information from the sources above.",
                 "\n", "\n", "Example answer format:", "\n",
                 "\"This is a fact from the document ">>
            \o Marker(1) \o <<". Here is another relevant detail ">>
            \o Marker(2) \o <<".\"", "\n", "\n",
                 "You can think through the problem, but when you provide your final answer, EVERY relevant sentence must end with a citation like ">>
            \o Marker(1) \o <<", ">> \o Marker(2)
            \o <<", etc.", "\n", "\n",
                 "Now provide your answer with proper citations:">>,
         citation_context |-> ctx]

\* the end (exclusive, 1-based) of the run of digits of s that starts at i
RECURSIVE DigitsEnd(_, _)
DigitsEnd(s, i) ==
    IF i <= Len(s) /\ IsDigit(s[i]) THEN DigitsEnd(s, i + 1) ELSE i

\* re.findall(r'\[(\d+)\]', s) from index i on, as a list of int(match)
RECURSIVE FindAllCitations(_, _)
FindAllCitations(s, i) ==
    IF i > Len(s) THEN <<>>
    ELSE IF s[i] = "["
         THEN LET e == DigitsEnd(s, i + 1)
              IN  IF e > i + 1 /\ e <= Len(s) /\ s[e] = "]"
                  THEN <<ParseInt(SubSeq(s, i + 1, e - 1))>>
                           \o FindAllCitations(s, e + 1)
                  ELSE FindAllCitations(s, i + 1)
         ELSE FindAllCitations(s, i + 1)

\* set(int(match) for match in re.findall(...))
CitedNumbers(s) ==
    LET found == FindAllCitations(s, 1)
    IN  {found[k] : k \in 1..Len(found)}

\* the preview is the whole content
TextCitation_full_preview(chunk) ==
    [num |-> chunk.citation_num,
     type |-> "text",
     filename |-> Get(Meta(chunk), "filename", "unknown"),
     page_idx |-> Get(Meta(chunk), "page_idx", 0),
     chunk_id |-> chunk.chunk_id,
     preview |-> chunk.content]

\* the record of a cited text chunk
TextCitation(chunk) ==
    [num |-> chunk.citation_num,
     type |-> "text",
     filename |-> Get(Meta(chunk), "filename", "unknown"),
     page_idx |-> Get(Meta(chunk), "page_idx", 0),
     chunk_id |-> chunk.chunk_id,
     preview |-> Slice(chunk.content, 0, CitationPreviewLen)]

\* the record of a cited image/table chunk
ImageCitation(chunk) ==
    [num |-> chunk.citation_num,
     type |-> Get(Meta(chunk), "type", "image"),
     filename |-> Get(Meta(chunk), "filename", "unknown"),
     page_idx |-> Get(Meta(chunk), "page_idx", 0),
     chunk_id |-> chunk.chunk_id,
     preview |-> <<Get(Meta(chunk), "type", "image"), " on page ">>
                    \o PageStr(Meta(chunk))]

\* [f(c) for c in chunks if c["citation_num"] in cited]
RECURSIVE CitedOf(_, _, _)
CitedOf(chunks, cited, text) ==
    IF chunks = <<>> THEN <<>>
    ELSE (IF Head(chunks).citation_num \in cited
          THEN <<IF text THEN TextCitation(Head(chunks))
                 ELSE ImageCitation(Head(chunks))>>
          ELSE <<>>) \o CitedOf(Tail(chunks), cited, text)

\* insertion of c after the last element whose num is <= c.num
RECURSIVE InsertByNum(_, _)
InsertByNum(sorted, c) ==
    IF sorted = <<>> THEN <<c>>
    ELSE IF Head(sorted).num <= c.num
         THEN <<Head(sorted)>> \o InsertByNum(Tail(sorted), c)
         ELSE <<c>> \o sorted

\* all_citations.sort(key=lambda x: x["num"]): stable
RECURSIVE SortByNum(_)
SortByNum(cs) ==
    IF cs = <<>> THEN <<>>
    ELSE InsertByNum(SortByNum(SubSeq(cs, 1, Len(cs) - 1)), cs[Len(cs)])

\* the loop over image_chunks is missing
extract_citations_text_only(response_text, texts, images) ==
    SortByNum(CitedOf(texts, CitedNumbers(response_text), TRUE))

\* extract_citations_from_response
extract_citations_from_response(response_text, texts, images) ==
    LET cited_numbers == CitedNumbers(response_text)
    IN  SortByNum(CitedOf(texts, cited_numbers, TRUE)
                    \o CitedOf(images, cited_numbers, FALSE))

\* create_citation_context raises when meta.get is reached on None
create_citation_context_raises(texts, images) ==
    \/ \E i \in 1..Len(texts) : MetaGetRaises(texts[i])
    \/ \E i \in 1..Len(images) : MetaGetRaises(images[i])

\* extract_citations_from_response reads the metadata of the cited chunks
\* only
extract_citations_raises(response_text, texts, images) ==
    LET cited_numbers == CitedNumbers(response_text)
    IN  \/ \E i \in 1..Len(texts) :
              texts[i].citation_num \in cited_numbers /\ MetaGetRaises(texts[i])
        \/ \E i \in 1..Len(images) :
              images[i].citation_num \in cited_numbers /\ MetaGetRaises(images[i])

(***************************************************************************)
(* The lists of retrieved sources written by frontend.py.  The emoji of    *)
(* the two headings are left out of the literals.                          *)
(***************************************************************************)
SourcePreviewLen == 150  \* full_content[:150]

\* content[:150], followed by "..." when the content is longer
ContentPreview(content) ==
    Slice(content, 0, SourcePreviewLen)
        \o (IF Len(content) > SourcePreviewLen THEN <<"...">> ELSE <<>>)

\* f"**[{i}] {filename} - Page {page_idx} ({chunk_type})**"
SourceHeading(i, meta) ==
    <<"**[">> \o Dec(i) \o <<"] ">>
        \o <<Get(meta, "filename", "unknown")>>
        \o <<" - Page ">> \o PageText(meta, "unknown")
        \o <<" (">> \o <<Get(meta, "type", "unknown")>> \o <<")**">>

\* f"> Path: {path}" when the metadata has a non-empty path
PathLine(meta, suffix) ==
    IF Get(meta, "path", "") # ""
    THEN <<"> Path: ", meta["path"]>> \o suffix
    ELSE <<>>

\* render_text_chunk_with_expander: the st.markdown calls, in order
render_text_chunk_with_expander(chunk, chunk_index) ==
    << SourceHeading(chunk_index, Meta(chunk)),
       <<"> ">> \o ContentPreview(chunk.content) >>
    \o (IF Len(chunk.content) > SourcePreviewLen
        THEN << <<"View full content (Chunk ">> \o Dec(chunk_index) \o <<")">>,
                chunk.content >>
        ELSE <<>>)
    \o << <<>> >>

RECURSIVE RenderTexts(_, _)
RenderTexts(texts, i) ==
    IF texts = <<>> THEN <<>>
    ELSE render_text_chunk_with_expander(Head(texts), i)
            \o RenderTexts(Tail(texts), i + 1)

RECURSIVE RenderImages(_, _)
RenderImages(images, i) ==
    IF images = <<>> THEN <<>>
    ELSE << SourceHeading(i, Meta(Head(images))) >>
            \o (IF Get(Meta(Head(images)), "path", "") # ""
                THEN << PathLine(Meta(Head(images)), <<>>) >> ELSE <<>>)
            \o << <<>> >>
            \o RenderImages(Tail(images), i + 1)

\* format_citations_interactive: the sequence of rendered markdown strings;
\* the entries are numbered by enumerate(text_chunks, 1) and
\* enumerate(image_chunks, len(text_chunks) + 1)
format_citations_interactive(texts, images) ==
    (IF texts # <<>>
     THEN << <<"### Text References:">> >> \o RenderTexts(texts, 1)
     ELSE <<>>)
    \o (IF images # <<>>
        THEN << <<"### Image/Table References:">> >>
                \o RenderImages(images, Len(texts) + 1)
        ELSE <<>>)

RECURSIVE HistoryTexts(_, _)
HistoryTexts(texts, i) ==
    IF texts = <<>> THEN <<>>
    ELSE SourceHeading(i, Meta(Head(texts))) \o <<"\n">>
            \o <<"> ">> \o ContentPreview(Head(texts).content) \o <<"\n", "\n">>
            \o HistoryTexts(Tail(texts), i + 1)

RECURSIVE HistoryImages(_, _)
HistoryImages(images, i) ==
    IF images = <<>> THEN <<>>
    ELSE SourceHeading(i, Meta(Head(images))) \o <<"\n">>
            \o PathLine(Meta(Head(images)), <<"\n">>)
            \o <<"\n">>
            \o HistoryImages(Tail(images), i + 1)

\* the image entries are numbered from 1 again
format_citations_for_history_restart(texts, images) ==
    (IF texts # <<>>
     THEN <<"### Text References:", "\n">> \o HistoryTexts(texts, 1)
     ELSE <<>>)
    \o (IF images # <<>>
        THEN <<"### Image/Table References:", "\n">>
                \o HistoryImages(images, 1)
        ELSE <<>>)

\* format_citations_for_history: one string
format_citations_for_history(texts, images) ==
    (IF texts # <<>>
     THEN <<"### Text References:", "\n">> \o HistoryTexts(texts, 1)
     ELSE <<>>)
    \o (IF images # <<>>
        THEN <<"### Image/Table References:", "\n">>
                \o HistoryImages(images, Len(texts) + 1)
        ELSE <<>>)

(***************************************************************************)
(* The store of the session histories of get_model.py.                     *)
(***************************************************************************)
Rule(c) == IF c = "=" THEN "==================================================" 
           ELSE "--------------------------------------------------"

HumanMessage(content) == [type |-> "human", content |-> content]
AIMessage(content) == [type |-> "ai", content |-> content]
SystemMessage(content) == [type |-> "system", content |-> content]

\* get_session_history: the store after the call (the entry is created
\* empty when the id is new)
get_session_history(store, id) ==
    IF id \in DOMAIN store THEN store
    ELSE [k \in DOMAIN store \cup {id} |->
            IF k = id THEN <<>> ELSE store[k]]

\* history.add_message(message)
add_message(store, id, message) ==
    [store EXCEPT ![id] = Append(@, message)]

\* the context_parts of one text chunk
TextSourceParts(chunk) ==
    << <<"\n", "[Source ">> \o Dec(chunk.citation_num) \o <<"]">>,
       <<"File: ", Get(Meta(chunk), "filename", "unknown"), " | Page: ">>
           \o PageStr(Meta(chunk))
           \o <<" | Type: ", Get(Meta(chunk), "type", "text")>>,
       <<"Content:", "\n">> \o chunk.content,
       <<Rule("-")>> >>

\* the context_parts of one image/table chunk
ImageSourceParts(chunk) ==
    << <<"\n", "[Source ">> \o Dec(chunk.citation_num) \o <<"]">>,
       <<"File: ", Get(Meta(chunk), "filename", "unknown"), " | Page: ">>
           \o PageStr(Meta(chunk))
           \o <<" | Type: ", Get(Meta(chunk), "type", "image")>> >>
    \o (IF Get(Meta(chunk), "path", "") # ""
        THEN << <<"Path: ", Meta(chunk)["path"]>> >> ELSE <<>>)
    \o << <<Rule("-")>> >>

RECURSIVE FlatMap(_, _)
FlatMap(chunks, text) ==
    IF chunks = <<>> THEN <<>>
    ELSE (IF text THEN TextSourceParts(Head(chunks))
          ELSE ImageSourceParts(Head(chunks)))
            \o FlatMap(Tail(chunks), text)

\* full_context = "\n".join(context_parts)
full_context(texts, images) ==
    Join(<<"\n">>,
         << <<Rule("=")>>, <<"REFERENCED CONTEXT FROM RAG RETRIEVAL">>,
            <<Rule("=")>>, <<>> >>
         \o (IF texts # <<>>
             THEN << <<"TEXT SOURCES:">>, <<Rule("-")>> >> \o FlatMap(texts, TRUE)
             ELSE <<>>)
         \o (IF images # <<>>
             THEN << <<"\n", "IMAGE/TABLE SOURCES:">>, <<Rule("-")>> >>
                     \o FlatMap(images, FALSE)
             ELSE <<>>)
         \o << <<>>, <<Rule("=")>>, <<"END OF REFERENCED CONTEXT">>,
                <<Rule("=")>> >>)

\* the message is appended twice
add_referenced_context_twice(store, id, texts, images) ==
    add_message(
        add_message(get_session_history(store, id), id,
                    SystemMessage(full_context(texts, images))),
        id, SystemMessage(full_context(texts, images)))

\* add_referenced_context_to_history: the new value of _session_store
add_referenced_context_to_history(store, id, texts, images) ==
    add_message(get_session_history(store, id), id,
                SystemMessage(full_context(texts, images)))

\* RunnableWithMessageHistory around the chain: when the stream ends the
\* question and the answer are added to the history of the session
stream_with_history(store, id, q, answer) ==
    add_message(
        add_message(get_session_history(store, id), id,
                    HumanMessage(q)),
        id, AIMessage(answer))

(***************************************************************************)
(* The chat handler of frontend.py for the first query of a session, from  *)
(* the user's input to the message saved in the session state.  The        *)
(* records the two collections return and the text of the model's answer   *)
(* are inputs.                                                             *)
(***************************************************************************)
LongContent == <<"q">> \o Rep("z", 500)

\* records of the collection "textdb" that a query can return
TextCorpus ==
    { [doc |-> <<"s", "k", "y">>,
       meta |-> [filename |-> "doc1", page_idx |-> 3, type |-> "text"],
       id |-> "text_3_0"],
      [doc |-> LongContent,
       meta |-> [page_idx |-> 12],
       id |-> "text_12_1"],
      [doc |-> <<"s", "e", "e", " ", "[", "5", "]">>,
       meta |-> EmptyDict,
       id |-> "text_0_0"] }

\* records of the collection "imgdb" that a query can return
ImageCorpus ==
    { [meta |-> [filename |-> "doc1", page_idx |-> 4, type |-> "table",
                 path |-> "images/t.jpg"],
       id |-> "table_4_1"],
      [meta |-> EmptyDict, id |-> "image_0_2"] }

\* the ranked results of a query: at most n distinct records
Ranked(corpus, n) ==
    {r \in UNION {[1..k -> corpus] : k \in 0..n} :
        \A i, j \in 1..Len(r) : i # j => r[i] # r[j]}

\* the tags of a thinking block, character by character
ThinkOpen == <<"<", "t", "h", "i", "n", "k", ">">>
ThinkClose == <<"<", "/", "t", "h", "i", "n", "k", ">">>

\* sub in s
Contains(s, sub) == Find(s, sub, 0) # -1

\* re.search(r'</think>\s*(.*)', s, re.DOTALL).group(1), for s that
\* contains </think>: the text after the first </think> and the whitespace
\* that follows it
AfterThink(s) ==
    LStrip(Slice(s, Find(s, ThinkClose, 0) + Len(ThinkClose), Len(s)))

\* the answer part is not separated from the thinking block
extract_display_response_whole(full_response) == full_response

\* display_response of the chat handler, from the streamed full_response
extract_display_response(full_response) ==
    IF Contains(full_response, ThinkOpen) /\ Contains(full_response, ThinkClose)
    THEN Strip(AfterThink(full_response))
    ELSE full_response

\* the end (exclusive, 1-based) of the run of whitespace of s that starts at i
RECURSIVE WsEnd(_, _)
WsEnd(s, i) ==
    IF i <= Len(s) /\ s[i] \in Whitespace THEN WsEnd(s, i + 1) ELSE i

\* the lowest index >= i of s that holds c, or 0
IndexOf(s, c, i) ==
    LET hits == {k \in i..Len(s) : s[k] = c}
    IN  IF hits = {} THEN 0 ELSE CHOOSE k \in hits : \A h \in hits : k <= h

At1(s, i) == IF i >= 1 /\ i <= Len(s) THEN s[i] ELSE ""

\* the end (exclusive) of the match of
\* r'From \[[^\]]+\] \([^)]+\)[^:]*:\s*' at i, or 0
FromMatchEnd(s, i) ==
    IF ~(At1(s, i) = "From" /\ At1(s, i + 1) = " " /\ At1(s, i + 2) = "[")
    THEN 0
    ELSE LET j == IndexOf(s, "]", i + 3)
         IN  IF j < i + 4 \/ At1(s, j + 1) # " " \/ At1(s, j + 2) # "("
             THEN 0
             ELSE LET k == IndexOf(s, ")", j + 3)
                  IN  IF k < j + 4 THEN 0
                      ELSE LET m == IndexOf(s, ":", k + 1)
                           IN  IF m = 0 THEN 0 ELSE WsEnd(s, m + 1)

\* the end of the match of r'\[(Source|Reference|Ref)\s+\d+\]\s*' at i, or 0
SourceMatchEnd(s, i) ==
    IF ~(At1(s, i) = "[" /\ At1(s, i + 1) \in {"Source", "Reference", "Ref"})
    THEN 0
    ELSE LET w == WsEnd(s, i + 2)
             d == DigitsEnd(s, w)
         IN  IF w > i + 2 /\ d > w /\ At1(s, d) = "]"
             THEN WsEnd(s, d + 1) ELSE 0

\* the end of the run of characters other than the double quote from i
RECURSIVE NoQuoteEnd(_, _)
NoQuoteEnd(s, i) ==
    IF i <= Len(s) /\ s[i] # "\"" THEN NoQuoteEnd(s, i + 1) ELSE i

\* r'\[(\d+)\]\s*["][^"]+"["]' at i: the index of the "]" of the marker and
\* the end of the match, or 0
QuotedMatch(s, i) ==
    IF At1(s, i) # "[" THEN [close |-> 0, end |-> 0]
    ELSE LET d == DigitsEnd(s, i + 1)
             w == WsEnd(s, d + 1)
             q == NoQuoteEnd(s, w + 1)
         IN  IF d > i + 1 /\ At1(s, d) = "]" /\ At1(s, w) = "\""
                /\ q > w + 1 /\ At1(s, q) = "\"" /\ At1(s, q + 1) = "\""
             THEN [close |-> d, end |-> q + 2]
             ELSE [close |-> 0, end |-> 0]

\* the end of the match of r'\d+\.\s*From' at i, or 0
ListFromMatchEnd(s, i) ==
    LET d == DigitsEnd(s, i)
        w == WsEnd(s, d + 1)
    IN  IF d > i /\ At1(s, d) = "." /\ At1(s, w) = "From" THEN w + 1 ELSE 0

\* re.sub of each of the five patterns, scanning from index i
RECURSIVE SubFrom(_, _)
SubFrom(s, i) ==
    IF i > Len(s) THEN <<>>
    ELSE IF FromMatchEnd(s, i) # 0 THEN SubFrom(s, FromMatchEnd(s, i))
    ELSE <<s[i]>> \o SubFrom(s, i + 1)

RECURSIVE SubSource(_, _)
SubSource(s, i) ==
    IF i > Len(s) THEN <<>>
    ELSE IF SourceMatchEnd(s, i) # 0 THEN SubSource(s, SourceMatchEnd(s, i))
    ELSE <<s[i]>> \o SubSource(s, i + 1)

RECURSIVE SubQuoted(_, _)
SubQuoted(s, i) ==
    IF i > Len(s) THEN <<>>
    ELSE IF QuotedMatch(s, i).end # 0
    THEN SubSeq(s, i, QuotedMatch(s, i).close) \o SubQuoted(s, QuotedMatch(s, i).end)
    ELSE <<s[i]>> \o SubQuoted(s, i + 1)

RECURSIVE SubSpaces(_, _)
SubSpaces(s, i) ==
    IF i > Len(s) THEN <<>>
    ELSE IF s[i] \in Whitespace THEN <<" ">> \o SubSpaces(s, WsEnd(s, i))
    ELSE <<s[i]>> \o SubSpaces(s, i + 1)

RECURSIVE SubListFrom(_, _)
SubListFrom(s, i) ==
    IF i > Len(s) THEN <<>>
    ELSE IF ListFromMatchEnd(s, i) # 0 THEN SubListFrom(s, ListFromMatchEnd(s, i))
    ELSE <<s[i]>> \o SubListFrom(s, i + 1)

\* clean_response_citations
clean_response_citations(resp) ==
    Strip(SubListFrom(SubSpaces(SubQuoted(SubSource(SubFrom(resp, 1), 1), 1), 1), 1))

Questions == { <<"w", "h", "y", "?">>, <<"[", "9", "]">> }

ResponseTokens ==
    { <<"[", "1", "]">>, <<"[", "3", "]">>, <<"[", "4", "]">>,
      <<"[", "1", "2", "]">>, <<"[">>, <<"0", "2">>, <<"]">> }

RECURSIVE Flatten(_)
Flatten(ts) == IF ts = <<>> THEN <<>> ELSE Head(ts) \o Flatten(Tail(ts))

Responses ==
    {Flatten(ts) : ts \in UNION {[1..k -> ResponseTokens] : k \in 0..MaxRespTokens}}

InitChat ==
    /\ original_text = <<>>
    /\ stored_chunks = <<>>
    /\ chunk_mappings = <<>>
    /\ located = NoMapping
    /\ response = NoResponse
    /\ textdb = <<>>
    /\ imgdb = <<>>
    /\ vpc = "chat"
    /\ req = NoRequests
    /\ hl = NoWalk
    /\ ChatIdle

\* the session the handler runs in: create_session() at start-up made
\* chat_sessions[1] with session_id f"session_{1}"
CurrentSessionId == "session_1"

\* the user submits a question; form_context_info / get_knowledge
Retrieve ==
    /\ vpc = "chat"
    /\ qpc = "idle"
    /\ \E user_input \in Questions :
          /\ question' = user_input
          /\ messages' = Append(messages, [role |-> "user", content |-> user_input])
    /\ \E text_results \in Ranked(TextCorpus, NTextResults),
          image_results \in Ranked(ImageCorpus, NImageResults) :
          LET k == get_knowledge(text_results, image_results)
          IN  /\ text_chunks' = k.text
              /\ image_chunks' = k.image
    /\ session_id' = CurrentSessionId
    /\ qpc' = "retrieved"
    /\ UNCHANGED <<viewer_vars, db_vars, located, req, hl, response, vpc,
                   complete_prompt, citation_context, display_response,
                   citations_used, rendered_sources, session_store,
                   front_vars>>

\* complete_prompt, citation_context = build_prompt_with_citations(...)
BuildPrompt ==
    /\ vpc = "chat"
    /\ qpc = "retrieved"
    /\ LET b == build_prompt_with_citations(question, text_chunks, image_chunks)
       IN  /\ complete_prompt' = b.complete_prompt
           /\ citation_context' = b.citation_context
    /\ qpc' = "prompted"
    /\ UNCHANGED <<viewer_vars, db_vars, located, req, hl, response, vpc, question,
                   text_chunks, image_chunks, display_response, citations_used,
                   rendered_sources, messages, session_store, session_id,
                   front_vars>>

\* the retrieved sources are rendered, the prompt goes to the model and
\* the answer text comes back through the chain with message history
Respond ==
    /\ vpc = "chat"
    /\ qpc = "prompted"
    /\ rendered_sources' = format_citations_interactive(text_chunks, image_chunks)
    /\ \E answer \in Responses :
          /\ display_response' = extract_display_response(ThinkOpen \o answer)
          /\ session_store' =
                stream_with_history(session_store, session_id, question, answer)
    /\ complete_prompt' = <<>>
    /\ citation_context' = <<>>
    /\ qpc' = "responded"
    /\ UNCHANGED <<viewer_vars, db_vars, located, req, hl, response, vpc, question,
                   text_chunks, image_chunks, citations_used, messages, session_id,
                   front_vars>>

\* citations_used = extract_citations_from_response(display_response, ...)
Extract ==
    /\ vpc = "chat"
    /\ qpc = "responded"
    /\ citations_used' =
          extract_citations_from_response(display_response, text_chunks, image_chunks)
    /\ qpc' = "extracted"
    /\ UNCHANGED <<viewer_vars, db_vars, located, req, hl, response, vpc, question,
                   text_chunks, image_chunks, complete_prompt, citation_context,
                   display_response, rendered_sources, messages, session_store, session_id,
                   front_vars>>

\* the retrieved context goes to the session history, the assistant
\* message (sources section, citations, chunks) is appended to
\* st.session_state.messages and the handler returns; its locals are gone
Finish ==
    /\ vpc = "chat"
    /\ qpc = "extracted"
    /\ session_store' =
          add_referenced_context_to_history(session_store, session_id,
                                            text_chunks, image_chunks)
    /\ messages' = Append(messages,
          [role |-> "assistant",
           sources |-> format_citations_for_history(text_chunks, image_chunks),
           citations |-> citations_used,
           text_chunks |-> text_chunks,
           image_chunks |-> image_chunks])
    /\ qpc' = "done"
    /\ question' = <<>>
    /\ text_chunks' = <<>>
    /\ image_chunks' = <<>>
    /\ display_response' = <<>>
    /\ citations_used' = <<>>
    /\ session_id' = ""
    /\ UNCHANGED <<viewer_vars, db_vars, located, req, hl, response, vpc,
                   complete_prompt, citation_context, rendered_sources,
                   front_vars>>

NextChat ==
    \/ Retrieve
    \/ BuildPrompt
    \/ Respond
    \/ Extract
    \/ Finish

SpecChat == InitChat /\ [][NextChat]_vars

(***************************************************************************)
(* Specification of the two pure functions create_citation_context and     *)
(* extract_citations_from_response: the fragment lists are drawn from      *)
(* bounded sets, with every shape of metadata, and each function is        *)
(* applied once.  A call either returns or raises.                         *)
(***************************************************************************)
FullMeta == [filename |-> "doc1", page_idx |-> 4, type |-> "table"]

\* the metadata a fragment can carry: complete, one field missing, empty,
\* None
CiteMetas ==
    { FullMeta,
      [page_idx |-> 4, type |-> "table"],
      [filename |-> "doc1", type |-> "table"],
      [filename |-> "doc1", page_idx |-> 4],
      EmptyDict,
      None }

\* the i-th text fragment of a list: with a metadata, or without the key
CiteTextFragments(i) ==
    {[content |-> <<"s", "k", "y">>, chunk_id |-> <<"t", i>>, citation_num |-> i,
      metadata |-> m] : m \in CiteMetas}
    \cup {[content |-> <<"s", "k", "y">>, chunk_id |-> <<"t", i>>, citation_num |-> i]}

\* the i-th non-text fragment of a list, numbered after n text fragments
CiteImageFragments(i, n) ==
    {[chunk_id |-> <<"i", i>>, citation_num |-> n + i, metadata |-> m]
        : m \in CiteMetas}
    \cup {[chunk_id |-> <<"i", i>>, citation_num |-> n + i]}

CiteTextLists ==
    UNION {{l \in [1..n -> UNION {CiteTextFragments(i) : i \in 1..n}] :
                \A i \in 1..n : l[i] \in CiteTextFragments(i)}
            : n \in 0..MaxCiteTexts}

CiteImageLists(n) ==
    UNION {{l \in [1..k -> UNION {CiteImageFragments(i, n) : i \in 1..k}] :
                \A i \in 1..k : l[i] \in CiteImageFragments(i, n)}
            : k \in 0..MaxCiteImages}

CiteResponses ==
    { <<>>, <<"[", "1", "]">>, <<"[", "2", "]", " ", "[", "3", "]">> }

InitCite ==
    /\ original_text = <<>>
    /\ stored_chunks = <<>>
    /\ chunk_mappings = <<>>
    /\ located = NoMapping
    /\ response = NoResponse
    /\ textdb = <<>>
    /\ imgdb = <<>>
    /\ vpc = "cite"
    /\ req = NoRequests
    /\ hl = NoWalk
    /\ FrontIdle
    /\ qpc = "idle"
    /\ question \in Questions
    /\ text_chunks \in CiteTextLists
    /\ image_chunks \in CiteImageLists(Len(text_chunks))
    /\ complete_prompt = <<>>
    /\ citation_context = <<>>
    /\ display_response \in CiteResponses
    /\ citations_used = <<>>
    /\ rendered_sources = <<>>
    /\ messages = <<>>
    /\ session_store = EmptyDict
    /\ session_id = ""

\* create_citation_context(text_chunks, image_chunks)
CallCreateCitationContext ==
    /\ vpc = "cite"
    /\ qpc = "idle"
    /\ IF create_citation_context_raises(text_chunks, image_chunks)
       THEN /\ qpc' = "context_raised"
            /\ UNCHANGED citation_context
       ELSE /\ qpc' = "context_returned"
            /\ citation_context' = create_citation_context(text_chunks, image_chunks)
    /\ UNCHANGED <<viewer_vars, db_vars, located, req, hl, response, vpc, question,
                   text_chunks, image_chunks, complete_prompt, display_response,
                   citations_used, rendered_sources, messages, session_store, session_id,
                   front_vars>>

\* build_prompt_with_citations(question, text_chunks, image_chunks), which
\* calls create_citation_context
CallBuildPrompt ==
    /\ vpc = "cite"
    /\ qpc = "idle"
    /\ IF create_citation_context_raises(text_chunks, image_chunks)
       THEN /\ qpc' = "prompt_raised"
            /\ UNCHANGED <<complete_prompt, citation_context, front_vars>>
       ELSE LET b == build_prompt_with_citations(question, text_chunks, image_chunks)
            IN  /\ qpc' = "prompt_returned"
                /\ complete_prompt' = b.complete_prompt
                /\ citation_context' = b.citation_context
    /\ UNCHANGED <<viewer_vars, db_vars, located, req, hl, response, vpc, question,
                   text_chunks, image_chunks, display_response,
                   citations_used, rendered_sources, messages, session_store, session_id,
                   front_vars>>

\* extract_citations_from_response(display_response, text_chunks, image_chunks)
CallExtractCitations ==
    /\ vpc = "cite"
    /\ qpc \in {"context_raised", "context_returned",
                "prompt_raised", "prompt_returned"}
    /\ IF extract_citations_raises(display_response, text_chunks, image_chunks)
       THEN /\ qpc' = "extract_raised"
            /\ UNCHANGED citations_used
       ELSE /\ qpc' = "extract_returned"
            /\ citations_used' =
                  extract_citations_from_response(display_response, text_chunks,
                                                  image_chunks)
    /\ UNCHANGED <<viewer_vars, db_vars, located, req, hl, response, vpc, question,
                   text_chunks, image_chunks, complete_prompt, citation_context,
                   display_response, rendered_sources, messages, session_store, session_id,
                   front_vars>>

NextCite ==
    \/ CallCreateCitationContext
    \/ CallBuildPrompt
    \/ CallExtractCitations

SpecCite == InitCite /\ [][NextCite]_vars

(***************************************************************************)
(* Specification of the session histories: the calls that reach the        *)
(* store _session_store, for several session ids, in any order.            *)
(***************************************************************************)
SessionIds == {"session_1", "session_2"}

\* the fragment lists a call can be given: results of get_knowledge
HistoryContexts ==
    {get_knowledge(t, i) :
        t \in Ranked({r \in TextCorpus : Len(r.doc) < 10}, MaxHistoryChunks),
        i \in Ranked({r \in ImageCorpus : "path" \in DOMAIN r.meta},
                     MaxHistoryChunks)}

HistoryAnswers == { <<"[", "1", "]">> }

\* the number of messages in all the histories
RECURSIVE TotalMessages(_)
TotalMessages(store) ==
    IF DOMAIN store = {} THEN 0
    ELSE LET id == CHOOSE k \in DOMAIN store : TRUE
         IN  Len(store[id])
                + TotalMessages([k \in DOMAIN store \ {id} |-> store[k]])

InitHistory ==
    /\ original_text = <<>>
    /\ stored_chunks = <<>>
    /\ chunk_mappings = <<>>
    /\ located = NoMapping
    /\ response = NoResponse
    /\ textdb = <<>>
    /\ imgdb = <<>>
    /\ vpc = "history"
    /\ req = NoRequests
    /\ hl = NoWalk
    /\ ChatIdle

\* get_session_history(id), as a caller that only reads the history
GetSessionHistory ==
    /\ vpc = "history"
    /\ \E id \in SessionIds :
          /\ session_id' = id
          /\ session_store' = get_session_history(session_store, id)
    /\ qpc' = "get_history"
    /\ UNCHANGED <<viewer_vars, db_vars, located, req, hl, response, vpc, question,
                   text_chunks, image_chunks, complete_prompt, citation_context,
                   display_response, citations_used, rendered_sources, messages,
                   front_vars>>

\* add_referenced_context_to_history(id, text_chunks, image_chunks)
AddReferencedContext ==
    /\ vpc = "history"
    /\ TotalMessages(session_store) < MaxHistory
    /\ \E id \in SessionIds, k \in HistoryContexts :
          /\ session_id' = id
          /\ session_store' =
                add_referenced_context_to_history(session_store, id, k.text, k.image)
    /\ qpc' = "add_context"
    /\ UNCHANGED <<viewer_vars, db_vars, located, req, hl, response, vpc, question,
                   text_chunks, image_chunks, complete_prompt, citation_context,
                   display_response, citations_used, rendered_sources, messages,
                   front_vars>>

\* model.stream(args, config={"configurable": {"session_id": id}})
StreamAnswer ==
    /\ vpc = "history"
    /\ TotalMessages(session_store) + 2 <= MaxHistory
    /\ \E id \in SessionIds, q \in Questions, answer \in HistoryAnswers :
          /\ session_id' = id
          /\ session_store' = stream_with_history(session_store, id, q, answer)
    /\ qpc' = "stream"
    /\ UNCHANGED <<viewer_vars, db_vars, located, req, hl, response, vpc, question,
                   text_chunks, image_chunks, complete_prompt, citation_context,
                   display_response, citations_used, rendered_sources, messages,
                   front_vars>>

NextHistory ==
    \/ GetSessionHistory
    \/ AddReferencedContext
    \/ StreamAnswer

SpecHistory == InitHistory /\ [][NextHistory]_vars

(***************************************************************************)
(* Specification of the answer of one query: the streaming loop of the     *)
(* chat handler, chunk by chunk, then the separation of the answer from    *)
(* the thinking block, the extraction of the citations and the cleaning    *)
(* of the text.  The handler has retrieved the fragments and built the     *)
(* prompt when the loop starts.                                            *)
(***************************************************************************)
MaxStreamChunks == 4   \* most chunks yielded by model.stream for one answer

\* "From [2] (p): ", the verbose framing of a citation
FromFraming ==
    <<"From", " ", "[", "2", "]", " ", "(", "p", ")", ":", " ">>

\* the chunks model.stream can yield; </think> comes whole or in two chunks
StreamChunks ==
    { ThinkClose,
      <<"<", "/", "t", "h", "i">>,
      <<"n", "k", ">">>,
      <<"[", "1", "]">>,
      <<"\n">>,
      <<"x">>,
      FromFraming }

AnswerQuestion == <<"w", "h", "y", "?">>

InitAnswer ==
    /\ original_text = <<>>
    /\ stored_chunks = <<>>
    /\ chunk_mappings = <<>>
    /\ located = NoMapping
    /\ response = NoResponse
    /\ textdb = <<>>
    /\ imgdb = <<>>
    /\ vpc = "answer"
    /\ req = NoRequests
    /\ hl = NoWalk
    /\ FrontIdle
    /\ qpc = "prompted"
    /\ question = AnswerQuestion
    /\ \E k \in HistoryContexts :
          /\ text_chunks = k.text
          /\ image_chunks = k.image
    /\ complete_prompt =
          build_prompt_with_citations(question, text_chunks, image_chunks).complete_prompt
    /\ citation_context =
          build_prompt_with_citations(question, text_chunks, image_chunks).citation_context
    /\ display_response = <<>>
    /\ citations_used = <<>>
    /\ rendered_sources = format_citations_interactive(text_chunks, image_chunks)
    /\ messages = <<[role |-> "user", content |-> question]>>
    /\ session_store = EmptyDict
    /\ session_id = CurrentSessionId

\* full_response = "<think>", in_thinking = False, answer_content = ""
BeginStream ==
    /\ vpc = "answer"
    /\ qpc = "prompted"
    /\ stream = NoStream
    /\ stream' = [pc |-> "loop", full_response |-> ThinkOpen,
                  in_thinking |-> FALSE, answer_content |-> <<>>,
                  thinking_placeholder |-> <<>>, answer_placeholder |-> <<>>,
                  chunks |-> 0]
    /\ UNCHANGED <<viewer_vars, db_vars, located, req, hl, response, vpc,
                   chat_vars, chat_sessions, current_chat_index, lists, called>>

\* one iteration of "for chunk in st.session_state.model.stream(...)"
StreamChunk ==
    /\ vpc = "answer"
    /\ stream.pc = "loop"
    /\ stream.chunks < MaxStreamChunks
    /\ \E chunk \in StreamChunks :
          LET full_response  == stream.full_response \o chunk
              closed         == Contains(full_response, ThinkClose)
              in_thinking    == IF Contains(full_response, ThinkOpen) /\ ~closed
                                THEN TRUE
                                ELSE IF closed THEN FALSE ELSE stream.in_thinking
              answer_content == IF closed THEN AfterThink(full_response)
                                ELSE stream.answer_content
          IN  stream' = [stream EXCEPT
                  !.full_response = full_response,
                  !.in_thinking = in_thinking,
                  !.answer_content = answer_content,
                  !.thinking_placeholder =
                      IF in_thinking
                      THEN Strip(Slice(full_response, Len(ThinkOpen),
                                       Len(full_response)))
                      ELSE @,
                  !.answer_placeholder =
                      IF in_thinking THEN @
                      ELSE IF closed THEN answer_content \o <<"|">>
                      ELSE full_response \o <<"|">>,
                  !.chunks = @ + 1]
    /\ UNCHANGED <<viewer_vars, db_vars, located, req, hl, response, vpc,
                   chat_vars, chat_sessions, current_chat_index, lists, called>>

\* the stream is exhausted: the chain saves the exchange in the history
\* and display_response is taken from full_response
EndStream ==
    /\ vpc = "answer"
    /\ stream.pc = "loop"
    /\ qpc = "prompted"
    /\ stream' = [stream EXCEPT !.pc = "ended"]
    /\ session_store' =
          stream_with_history(session_store, session_id, question,
              Slice(stream.full_response, Len(ThinkOpen), Len(stream.full_response)))
    /\ display_response' = extract_display_response(stream.full_response)
    /\ qpc' = "responded"
    /\ UNCHANGED <<viewer_vars, db_vars, located, req, hl, response, vpc, question,
                   text_chunks, image_chunks, complete_prompt, citation_context,
                   citations_used, rendered_sources, messages, session_id,
                   chat_sessions, current_chat_index, lists, called>>

\* citations_used = extract_citations_from_response(display_response, ...)
ExtractAnswer ==
    /\ vpc = "answer"
    /\ qpc = "responded"
    /\ citations_used' =
          extract_citations_from_response(display_response, text_chunks, image_chunks)
    /\ qpc' = "extracted"
    /\ UNCHANGED <<viewer_vars, db_vars, located, req, hl, response, vpc, question,
                   text_chunks, image_chunks, complete_prompt, citation_context,
                   display_response, rendered_sources, messages, session_store,
                   session_id, front_vars>>

\* the context goes to the history and
\* display_response = clean_response_citations(display_response)
CleanAnswer ==
    /\ vpc = "answer"
    /\ qpc = "extracted"
    /\ session_store' =
          add_referenced_context_to_history(session_store, session_id,
                                            text_chunks, image_chunks)
    /\ display_response' = clean_response_citations(display_response)
    /\ qpc' = "cleaned"
    /\ UNCHANGED <<viewer_vars, db_vars, located, req, hl, response, vpc, question,
                   text_chunks, image_chunks, complete_prompt, citation_context,
                   citations_used, rendered_sources, messages, session_id,
                   front_vars>>

\* the assistant message is appended and the handler returns
FinishAnswer ==
    /\ vpc = "answer"
    /\ qpc = "cleaned"
    /\ messages' = Append(messages,
          [role |-> "assistant",
           sources |-> format_citations_for_history(text_chunks, image_chunks),
           answer |-> display_response,
           citations |-> citations_used,
           text_chunks |-> text_chunks,
           image_chunks |-> image_chunks])
    /\ qpc' = "done"
    /\ UNCHANGED <<viewer_vars, db_vars, located, req, hl, response, vpc, question,
                   text_chunks, image_chunks, complete_prompt, citation_context,
                   display_response, citations_used, rendered_sources,
                   session_store, session_id, front_vars>>

NextAnswer ==
    \/ BeginStream
    \/ StreamChunk
    \/ EndStream
    \/ ExtractAnswer
    \/ CleanAnswer
    \/ FinishAnswer

SpecAnswer == InitAnswer /\ [][NextAnswer]_vars

(***************************************************************************)
(* Specification of the parameter validation of get_model.py.  A float is  *)
(* a number of tenths or NaN; every comparison with NaN is false.          *)
(***************************************************************************)
NaN == [kind |-> "nan"]
Num(v) == [kind |-> "num", v |-> v]

\* a <= x <= b on floats, in tenths
Between(a, x, b) == x.kind = "num" /\ a <= x.v /\ x.v <= b

\* the ranges, temperature and top_p in tenths
TemperatureMax == 20
TopPMax == 10
TopKMin == 1
TopKMax == 100

Temperatures == {Num(v) : v \in {-1, 0, 7, 20, 21}} \cup {NaN}
TopPs == {Num(v) : v \in {-1, 0, 9, 10, 11}} \cup {NaN}
TopKs == {0, 1, 40, 100, 101}

\* the ranges are tested by exclusion: x < a or x > b
validate_parameters_by_exclusion(temperature, top_p, top_k) ==
    IF temperature.kind = "num" /\ (temperature.v < 0 \/ temperature.v > TemperatureMax)
    THEN <<FALSE, "Temperature must be between 0.0 and 2.0">>
    ELSE IF top_p.kind = "num" /\ (top_p.v < 0 \/ top_p.v > TopPMax)
    THEN <<FALSE, "Top-p must be between 0.0 and 1.0">>
    ELSE IF top_k < TopKMin \/ top_k > TopKMax
    THEN <<FALSE, "Top-k must be between 1 and 100">>
    ELSE <<TRUE, "">>

\* validate_parameters
validate_parameters(temperature, top_p, top_k) ==
    IF ~Between(0, temperature, TemperatureMax)
    THEN <<FALSE, "Temperature must be between 0.0 and 2.0">>
    ELSE IF ~Between(0, top_p, TopPMax)
    THEN <<FALSE, "Top-p must be between 0.0 and 1.0">>
    ELSE IF ~(TopKMin <= top_k /\ top_k <= TopKMax)
    THEN <<FALSE, "Top-k must be between 1 and 100">>
    ELSE <<TRUE, "">>

\* get_prompted_model: the chain is known by the parameters of its model
get_prompted_model(temperature, top_p, top_k) ==
    [temperature |-> temperature, top_p |-> top_p, top_k |-> top_k]

\* get_prompted_model_with_params: the exception raised, if any, and the
\* model returned
get_prompted_model_with_params(temperature, top_p, top_k) ==
    LET v == validate_parameters(temperature, top_p, top_k)
    IN  IF ~v[1]
        THEN [raised |-> "ValueError",
              message |-> <<"Invalid parameter: ", v[2]>>,
              model |-> None]
        ELSE [raised |-> "none", message |-> <<>>,
              model |-> get_prompted_model(temperature, top_p, top_k)]

InitParams ==
    /\ original_text = <<>>
    /\ stored_chunks = <<>>
    /\ chunk_mappings = <<>>
    /\ located = NoMapping
    /\ response = NoResponse
    /\ textdb = <<>>
    /\ imgdb = <<>>
    /\ vpc = "params"
    /\ req = NoRequests
    /\ hl = NoWalk
    /\ ChatIdle

CallValidateParameters ==
    /\ vpc = "params"
    /\ \E temperature \in Temperatures, top_p \in TopPs, top_k \in TopKs :
          called' = [op |-> "validate_parameters",
                     temperature |-> temperature, top_p |-> top_p, top_k |-> top_k,
                     result |-> validate_parameters(temperature, top_p, top_k)]
    /\ UNCHANGED <<viewer_vars, db_vars, located, req, hl, response, vpc,
                   chat_vars, stream, chat_sessions, current_chat_index, lists>>

CallGetPromptedModelWithParams ==
    /\ vpc = "params"
    /\ \E temperature \in Temperatures, top_p \in TopPs, top_k \in TopKs :
          called' = [op |-> "get_prompted_model_with_params",
                     temperature |-> temperature, top_p |-> top_p, top_k |-> top_k,
                     result |-> get_prompted_model_with_params(temperature, top_p,
                                                               top_k)]
    /\ UNCHANGED <<viewer_vars, db_vars, located, req, hl, response, vpc,
                   chat_vars, stream, chat_sessions, current_chat_index, lists>>

NextParams ==
    \/ CallValidateParameters
    \/ CallGetPromptedModelWithParams

SpecParams == InitParams /\ [][NextParams]_vars

(***************************************************************************)
(* Specification of the chat sessions of the Streamlit front end.          *)
(* chat_sessions is a dict: here the sequence of its items in insertion    *)
(* order, each chat with its key.  The "messages" of a chat and            *)
(* st.session_state.messages are references to list objects: here the      *)
(* identity of a list, whose content is lists[identity]; a session id      *)
(* f"session_{n}" is <<"session_", n>>.  The parameters and the selected   *)
(* file of a chat are left out.                                            *)
(***************************************************************************)
MaxLists == 3     \* most message lists ever created (one per create_session)
MaxQueries == 1   \* most queries answered into one message list

SessionId(n) == <<"session_", n>>

\* chat_sessions.keys(), as a set
Keys(cs) == {cs[k].index : k \in 1..Len(cs)}

\* the position of key i in the dict
Pos(cs, i) == CHOOSE k \in 1..Len(cs) : cs[k].index = i

\* chat_sessions[i]
Chat(cs, i) == cs[Pos(cs, i)]

\* chat_sessions[i] = chat: an existing key keeps its place
SetItem(cs, i, chat) ==
    IF i \in Keys(cs) THEN [cs EXCEPT ![Pos(cs, i)] = chat]
    ELSE Append(cs, chat)

\* chat_sessions.pop(i)
Pop(cs, i) ==
    LET p == Pos(cs, i)
    IN  SubSeq(cs, 1, p - 1) \o SubSeq(cs, p + 1, Len(cs))

\* []: a new list object
NewList(ls) == Cardinality(DOMAIN ls) + 1
WithNewList(ls) ==
    [k \in DOMAIN ls \cup {NewList(ls)} |-> IF k \in DOMAIN ls THEN ls[k] ELSE <<>>]

\* the session state the three functions work on
SessionState ==
    [chat_sessions |-> chat_sessions, current_chat_index |-> current_chat_index,
     messages |-> messages, lists |-> lists]

\* create_session
create_session(st) ==
    LET index == st.current_chat_index + 1
        chat  == [index |-> index,
                  name |-> <<"default chat session ", index>>,
                  messages |-> NewList(st.lists),
                  session_id |-> SessionId(index)]
    IN  [chat_sessions |-> SetItem(st.chat_sessions, index, chat),
         current_chat_index |-> index,
         messages |-> chat.messages,
         lists |-> WithNewList(st.lists)]

\* st.session_state.messages is left as it was
switch_tab_keep_messages(st, switch_to) ==
    LET current_index == st.current_chat_index
        saved == SetItem(st.chat_sessions, current_index,
                    [Chat(st.chat_sessions, current_index)
                        EXCEPT !.messages = st.messages])
    IN  [st EXCEPT !.chat_sessions = saved,
                   !.current_chat_index = switch_to]

\* switch_tab
switch_tab(st, switch_to) ==
    LET current_index == st.current_chat_index
        saved == SetItem(st.chat_sessions, current_index,
                    [Chat(st.chat_sessions, current_index)
                        EXCEPT !.messages = st.messages])
    IN  [st EXCEPT !.chat_sessions = saved,
                   !.current_chat_index = switch_to,
                   !.messages = Chat(saved, switch_to).messages]

\* next(filter(lambda chat: chat != deleted, chat_sessions.keys()))
NextSession(cs, deleted_session_index) ==
    cs[CHOOSE k \in 1..Len(cs) :
          /\ cs[k].index # deleted_session_index
          /\ \A j \in 1..(k - 1) : cs[j].index = deleted_session_index].index

\* delete_session raises: st.session_state.pop(index) of the only session,
\* the session state having no item of that name
delete_session_raises(st, deleted_session_index) == Len(st.chat_sessions) = 1

\* delete_session, when it returns
delete_session(st, deleted_session_index) ==
    LET switched == switch_tab(st, NextSession(st.chat_sessions,
                                               deleted_session_index))
    IN  [switched EXCEPT
            !.chat_sessions = Pop(switched.chat_sessions, deleted_session_index)]

SetSessionState(st) ==
    /\ chat_sessions' = st.chat_sessions
    /\ current_chat_index' = st.current_chat_index
    /\ messages' = st.messages
    /\ lists' = st.lists

\* the initialisation block: no session, then create_session()
InitSessions ==
    /\ original_text = <<>>
    /\ stored_chunks = <<>>
    /\ chunk_mappings = <<>>
    /\ located = NoMapping
    /\ response = NoResponse
    /\ textdb = <<>>
    /\ imgdb = <<>>
    /\ vpc = "sessions"
    /\ req = NoRequests
    /\ hl = NoWalk
    /\ stream = NoStream
    /\ called = NoCall
    /\ LET st == create_session([chat_sessions |-> <<>>, current_chat_index |-> 0,
                                 messages |-> 0, lists |-> EmptyDict])
       IN  /\ chat_sessions = st.chat_sessions
           /\ current_chat_index = st.current_chat_index
           /\ messages = st.messages
           /\ lists = st.lists
    /\ qpc = "idle"
    /\ question = <<>>
    /\ text_chunks = <<>>
    /\ image_chunks = <<>>
    /\ complete_prompt = <<>>
    /\ citation_context = <<>>
    /\ display_response = <<>>
    /\ citations_used = <<>>
    /\ rendered_sources = <<>>
    /\ session_store = EmptyDict
    /\ session_id = ""

SessionsUnchanged ==
    UNCHANGED <<viewer_vars, db_vars, located, req, hl, response, vpc, qpc,
                question, text_chunks, image_chunks, complete_prompt,
                citation_context, display_response, citations_used,
                rendered_sources, session_id, stream>>

\* the button "create new chat"
CreateSession ==
    /\ vpc = "sessions"
    /\ Cardinality(DOMAIN lists) < MaxLists
    /\ SetSessionState(create_session(SessionState))
    /\ called' = [op |-> "create_session", raised |-> "none"]
    /\ UNCHANGED session_store
    /\ SessionsUnchanged

\* the button of another chat
SwitchTab ==
    /\ vpc = "sessions"
    /\ \E index \in Keys(chat_sessions) :
          /\ SetSessionState(switch_tab(SessionState, index))
          /\ called' = [op |-> "switch_tab", index |-> index, raised |-> "none"]
    /\ UNCHANGED session_store
    /\ SessionsUnchanged

\* the delete button of a chat
DeleteSession ==
    /\ vpc = "sessions"
    /\ \E index \in Keys(chat_sessions) :
          IF delete_session_raises(SessionState, index)
          THEN /\ called' = [op |-> "delete_session", index |-> index,
                             raised |-> "KeyError"]
               /\ UNCHANGED <<chat_sessions, current_chat_index, messages, lists>>
          ELSE /\ SetSessionState(delete_session(SessionState, index))
               /\ called' = [op |-> "delete_session", index |-> index,
                             raised |-> "none"]
    /\ UNCHANGED session_store
    /\ SessionsUnchanged

\* a question is answered in the current chat: the two messages are
\* appended to st.session_state.messages, the exchange and the retrieved
\* context to the history of the chat's session id
Query ==
    /\ vpc = "sessions"
    /\ Len(lists[messages]) < 2 * MaxQueries
    /\ LET id == Chat(chat_sessions, current_chat_index).session_id
       IN  session_store' =
              add_referenced_context_to_history(
                  stream_with_history(session_store, id, AnswerQuestion, <<"x">>),
                  id, <<>>, <<>>)
    /\ lists' = [lists EXCEPT ![messages] =
                    @ \o <<[role |-> "user", content |-> AnswerQuestion],
                           [role |-> "assistant", answer |-> <<"x">>]>>]
    /\ called' = [op |-> "query", raised |-> "none"]
    /\ UNCHANGED <<chat_sessions, current_chat_index, messages>>
    /\ SessionsUnchanged

NextSessions ==
    \/ CreateSession
    \/ SwitchTab
    \/ DeleteSession
    \/ Query

SpecSessions == InitSessions /\ [][NextSessions]_vars

(***************************************************************************)
(* Vocabulary of the span-locator claims, stated from the document and     *)
(* the fragment alone.                                                     *)
(***************************************************************************)
IsWs(s, i) == s[i] \in Whitespace

\* the content without its leading and trailing whitespace
Trimmed(s) ==
    IF \A i \in 1..Len(s) : IsWs(s, i) THEN <<>>
    ELSE SubSeq(s,
           CHOOSE i \in 1..Len(s) :
               ~IsWs(s, i) /\ \A j \in 1..(i - 1) : IsWs(s, j),
           CHOOSE i \in 1..Len(s) :
               ~IsWs(s, i) /\ \A j \in (i + 1)..Len(s) : IsWs(s, j))

Occurs(s, sub) == \E i \in 0..Len(s) : MatchAt(s, sub, i)

\* sub occurs in s at i and at no index in from..(i - 1)
Earliest(s, sub, from, i) ==
    /\ i >= from
    /\ MatchAt(s, sub, i)
    /\ \A j \in from..(i - 1) : ~MatchAt(s, sub, j)

IsNl(s, i) == s[i] = "\n"
HasNl(s) == \E i \in 1..Len(s) : IsNl(s, i)

\* the text before the first newline of s
FirstLineOf(s) ==
    IF ~HasNl(s) THEN s
    ELSE SubSeq(s, 1,
           (CHOOSE i \in 1..Len(s) :
               IsNl(s, i) /\ \A j \in 1..(i - 1) : ~IsNl(s, j)) - 1)

\* the text after the last newline of s
LastLineOf(s) ==
    IF ~HasNl(s) THEN s
    ELSE SubSeq(s,
           (CHOOSE i \in 1..Len(s) :
               IsNl(s, i) /\ \A j \in (i + 1)..Len(s) : ~IsNl(s, j)) + 1,
           Len(s))

PrefixOf(frag) == Trimmed(SubSeq(frag, 1, Min(PrefixLen, Len(frag))))

BracketingHit(text, frag, first, last) ==
    /\ HasNl(frag)
    /\ \E f \in 0..Len(text) :
          /\ Earliest(text, first, 0, f)
          /\ \E l \in (f + Len(first))..Len(text) : MatchAt(text, last, l)

PrefixHit(text, prefix) == prefix # <<>> /\ Occurs(text, prefix)

Sentinel(loc) ==
    loc.start_pos = -1 /\ loc.end_pos = -1 /\ loc.match_score = 0

Disjoint(frag, text) ==
    \A i \in 1..Len(frag) : \A j \in 1..Len(text) : frag[i] # text[j]

HasLocated == vpc = "locate" /\ located # NoMapping
Fragment == Trimmed(stored_chunks[1].content)

ExactHolds(text, frag, loc) ==
    Occurs(text, frag) =>
        /\ loc.match_score = 10
        /\ loc.start_pos >= 0
        /\ loc.end_pos = loc.start_pos + Len(frag)
        /\ loc.end_pos <= Len(text)
        /\ \A k \in 1..Len(frag) : text[loc.start_pos + k] = frag[k]

\* C1: a fragment whose trimmed content occurs verbatim in the document is
\* located with score 1.0 at a span [start, start + len(trimmed)) whose slice
\* of the document equals the trimmed content.
C1_ExactMatch ==
    HasLocated => ExactHolds(original_text, Fragment, located)

C1_Witness ==
    /\ HasLocated
    /\ located.match_score = 10
    /\ located.start_pos > 0
    /\ located.end_pos > located.start_pos
    /\ Len(stored_chunks[1].content) > located.end_pos - located.start_pos

TierOrderHolds(text, frag, loc, exact, bracketing, prefix) ==
    /\ loc.match_score \in {10, 8, 6, 0}
    /\ exact => loc.match_score = 10
    /\ (~exact /\ bracketing) => loc.match_score = 8
    /\ (~exact /\ ~bracketing /\ prefix) => loc.match_score = 6
    /\ loc.match_score = 8 => ~exact
    /\ loc.match_score = 6 => (~exact /\ ~bracketing)
    /\ (~exact /\ ~bracketing /\ ~prefix) => Sentinel(loc)
    /\ (frag # <<>> /\ Disjoint(frag, text)) => Sentinel(loc)

\* C2: the tiers are tried in the order exact, bracketing, prefix and the
\* first success wins: 1.0 exactly when the exact match succeeds, 0.8 only
\* when exact failed, 0.6 only when exact and bracketing failed, and the
\* sentinel (-1, -1, 0.0) when all three fail, in particular when the
\* non-empty fragment shares no character with the document.
C2_TierOrder ==
    HasLocated =>
        TierOrderHolds(original_text, Fragment, located,
            Occurs(original_text, Fragment),
            BracketingHit(original_text, Fragment,
                Trimmed(FirstLineOf(Fragment)), Trimmed(LastLineOf(Fragment))),
            PrefixHit(original_text, PrefixOf(Fragment)))

\* a fragment that the bracketing tier and the prefix tier could both place
C2_Witness ==
    /\ HasLocated
    /\ located.match_score = 8
    /\ PrefixHit(original_text, PrefixOf(Fragment))

EarliestHolds(text, frag, loc, first, last, prefix) ==
    /\ loc.match_score = 10 => Earliest(text, frag, 0, loc.start_pos)
    /\ loc.match_score = 8 =>
          /\ Earliest(text, first, 0, loc.start_pos)
          /\ Earliest(text, last, loc.start_pos + Len(first),
                      loc.end_pos - Len(last))
    /\ loc.match_score = 6 => Earliest(text, prefix, 0, loc.start_pos)

\* C3: every probe takes the earliest occurrence: the exact start, the
\* first-line start, the last-line probe from the end of the first line,
\* and the prefix start.
C3_EarliestPosition ==
    HasLocated =>
        EarliestHolds(original_text, Fragment, located,
            Trimmed(FirstLineOf(Fragment)), Trimmed(LastLineOf(Fragment)),
            PrefixOf(Fragment))

\* the fragment occurs more than once and the first occurrence is returned
C3_Witness ==
    /\ HasLocated
    /\ located.match_score = 10
    /\ located.end_pos > located.start_pos
    /\ \E i \in (located.start_pos + 1)..Len(original_text) :
          MatchAt(original_text, Fragment, i)

(***************************************************************************)
(* Claims about the chunk mapper and the highlighter.                      *)
(***************************************************************************)
\* the last request was a successful /api/load: chunk_mappings is the
\* result of map_chunks_to_document on original_text and stored_chunks
Mapped == vpc = "viewer" /\ response.kind = "load" /\ response.success

IsSentinelMatched(m) ==
    m.start_pos = -1 /\ m.end_pos = -1 /\ m.match_score = 10

\* C9: every non-text fragment is mapped to start = end = -1 with score
\* 1.0, whatever its content and the document, and so never lies in the
\* body text.
C9_NonTextUnpositioned ==
    /\ \A i \in 1..Len(chunk_mappings) :
          chunk_mappings[i].stored_chunk.chunk_type # "text"
              => IsSentinelMatched(chunk_mappings[i])
    /\ (Mapped /\ original_text # <<>>) =>
          \A i \in 1..Len(stored_chunks) :
              stored_chunks[i].chunk_type # "text" =>
                  \E j \in 1..Len(chunk_mappings) :
                      /\ chunk_mappings[j].stored_chunk = stored_chunks[i]
                      /\ IsSentinelMatched(chunk_mappings[j])

\* a non-text fragment whose content occurs in the document
C9_Witness ==
    /\ Mapped
    /\ \E i \in 1..Len(chunk_mappings) :
          /\ chunk_mappings[i].stored_chunk.chunk_type # "text"
          /\ chunk_mappings[i].stored_chunk.content # <<>>
          /\ Occurs(original_text, chunk_mappings[i].stored_chunk.content)

\* C10: one mapping per fragment in input order, and no mapping at all
\* (and no error) when the document is empty or there is no fragment.
C10_OneMappingPerFragment ==
    Mapped =>
        IF original_text = <<>> \/ stored_chunks = <<>>
        THEN chunk_mappings = <<>>
        ELSE /\ Len(chunk_mappings) = Len(stored_chunks)
             /\ \A i \in 1..Len(stored_chunks) :
                   chunk_mappings[i].stored_chunk = stored_chunks[i]

\* three fragments, text and non-text, mapped in order
C10_Witness ==
    /\ Mapped
    /\ Len(chunk_mappings) >= 3
    /\ chunk_mappings[1].stored_chunk # chunk_mappings[2].stored_chunk
    /\ chunk_mappings[1].stored_chunk.content # chunk_mappings[2].stored_chunk.content

Highlighted ==
    /\ vpc = "viewer"
    /\ response.kind = "document"
    /\ "segments" \in DOMAIN response.body

\* the end of the text emitted by the segments before the k-th
EmittedBefore(segments, k) ==
    IF k = 1 THEN 0
    ELSE LET ends == {segments[i].end : i \in 1..(k - 1)}
         IN  CHOOSE e \in ends : \A f \in ends : f <= e

\* C6: no two segments of highlight's output overlap: a chunk segment
\* renders document[max(start, last_end) : end), empty when end <= last_end.
C6_NoOverlap ==
    Highlighted =>
        LET segments == response.body.segments
        IN  \A k \in 1..Len(segments) :
                segments[k].type = "chunk" =>
                    segments[k].content =
                        Slice(response.body.original_text,
                              Max(segments[k].start, EmittedBefore(segments, k)),
                              segments[k].end)

\* the character at position p of the document lies in the segment
Covers(segment, text, p) ==
    /\ segment.start <= p
    /\ p < segment.end
    /\ p - segment.start + 1 \in 1..Len(segment.content)
    /\ segment.content[p - segment.start + 1] = text[p + 1]

\* C11: for a non-empty document with at least one mapping, every character
\* position of the document lies in at least one emitted segment, whatever
\* the spans.
C11_SegmentsCoverDocument ==
    (vpc = "viewer" /\ response.kind = "document"
        /\ original_text # <<>> /\ chunk_mappings # <<>>) =>
        /\ "segments" \in DOMAIN response.body
        /\ \A p \in 0..(Len(original_text) - 1) :
              \E k \in 1..Len(response.body.segments) :
                  Covers(response.body.segments[k], original_text, p)

\* a span nested inside an earlier one, with plain text before and after
C11_Witness ==
    /\ Highlighted
    /\ LET segments == response.body.segments
       IN  /\ \E k, l \in 1..Len(segments) :
                 /\ k < l
                 /\ segments[k].type = "chunk"
                 /\ segments[l].type = "chunk"
                 /\ segments[k].start < segments[l].start
                 /\ segments[l].end < segments[k].end
           /\ segments[1].type = "text"
           /\ segments[Len(segments)].type = "text"

\* the text fragments that received the score-0.0 sentinel
UnmatchedText ==
    {i \in 1..Len(chunk_mappings) :
        /\ chunk_mappings[i].stored_chunk.chunk_type = "text"
        /\ Sentinel(chunk_mappings[i])}

\* C12: the reported unmapped count is the number of text fragments that
\* received the score-0.0 sentinel; a non-text fragment is never counted
\* as unmapped.
C12_NonTextCountedMatched ==
    (Mapped /\ original_text # <<>>) =>
        response.stats.unmapped_chunks = Cardinality(UnmatchedText)

(***************************************************************************)
(* Claims about the citation pipeline.                                     *)
(***************************************************************************)
Retrieved == vpc = "chat" /\ qpc # "idle"
Prompted == vpc = "chat" /\ qpc = "prompted"
Extracted == vpc = "chat" /\ qpc = "extracted"

AllNums ==
    {text_chunks[i].citation_num : i \in 1..Len(text_chunks)}
        \cup {image_chunks[i].citation_num : i \in 1..Len(image_chunks)}

\* C4: the N text fragments are numbered 1..N and the M non-text fragments
\* N+1..N+M, both in list order: the numbers are exactly 1..N+M without
\* repeats and every text number is below every non-text number.
C4_CitationNumbering ==
    Retrieved =>
        LET N == Len(text_chunks)
            M == Len(image_chunks)
        IN  /\ \A i \in 1..N : text_chunks[i].citation_num = i
            /\ \A j \in 1..M : image_chunks[j].citation_num = N + j
            /\ AllNums = 1..(N + M)
            /\ \A i, j \in 1..M :
                  image_chunks[i].citation_num = image_chunks[j].citation_num
                      => i = j
            /\ \A i \in 1..N : \A j \in 1..M :
                  text_chunks[i].citation_num < image_chunks[j].citation_num

C4_Witness ==
    /\ Retrieved
    /\ Len(text_chunks) = 3
    /\ Len(image_chunks) = 2
    /\ image_chunks[2].citation_num = 5

\* the digit string ds is the decimal numeral of n, possibly zero-padded
NumeralOf(ds, n) ==
    \E z \in 0..(Len(ds) - 1) :
        /\ \A k \in 1..z : ds[k] = "0"
        /\ SubSeq(ds, z + 1, Len(ds)) = Dec(n)

\* the text contains "[", a numeral of n, "]"
IsCited(s, n) ==
    \E i \in 1..Len(s) : \E j \in (i + 2)..Len(s) :
        /\ s[i] = "["
        /\ s[j] = "]"
        /\ \A k \in (i + 1)..(j - 1) : IsDigit(s[k])
        /\ NumeralOf(SubSeq(s, i + 1, j - 1), n)

HasBracketPattern(s) ==
    \E i \in 1..Len(s) : \E j \in (i + 2)..Len(s) :
        /\ s[i] = "["
        /\ s[j] = "]"
        /\ \A k \in (i + 1)..(j - 1) : IsDigit(s[k])

FragmentIdOf(n) ==
    IF \E i \in 1..Len(text_chunks) : text_chunks[i].citation_num = n
    THEN text_chunks[CHOOSE i \in 1..Len(text_chunks) :
                        text_chunks[i].citation_num = n].chunk_id
    ELSE image_chunks[CHOOSE i \in 1..Len(image_chunks) :
                        image_chunks[i].citation_num = n].chunk_id

\* C5: the extractor returns one record per fragment whose number is cited
\* as [n] in the response, ascending by num without repeats; cited numbers
\* of no fragment are dropped and a response without [n] gives no record.
C5_ExtractCited ==
    Extracted =>
        /\ {citations_used[k].num : k \in 1..Len(citations_used)}
              = {n \in AllNums : IsCited(display_response, n)}
        /\ \A k \in 1..(Len(citations_used) - 1) :
              citations_used[k].num < citations_used[k + 1].num
        /\ \A k \in 1..Len(citations_used) :
              citations_used[k].chunk_id = FragmentIdOf(citations_used[k].num)
        /\ ~HasBracketPattern(display_response) => citations_used = <<>>

\* [1], [1], [3] over at least three fragments gives the records 1 and 3
C5_Witness ==
    /\ Extracted
    /\ display_response
          = ThinkOpen \o <<"[", "1", "]", "[", "1", "]", "[", "3", "]">>
    /\ {1, 2, 3} \subseteq AllNums
    /\ Len(citations_used) = 2
    /\ citations_used[1].num = 1
    /\ citations_used[2].num = 3

BareMarker(n) == <<"[">> \o Dec(n) \o <<"]">>

\* C7: the prompt contains the question, and the reference block contains
\* the bare marker [n] of every text and every non-text fragment.
C7_RoundTrip ==
    Prompted =>
        /\ Occurs(complete_prompt, question)
        /\ \A i \in 1..Len(text_chunks) :
              Occurs(citation_context, BareMarker(text_chunks[i].citation_num))
        /\ \A i \in 1..Len(image_chunks) :
              Occurs(citation_context, BareMarker(image_chunks[i].citation_num))

\* C8 as stated: the reference block holds at most the first 500 characters
\* of a text fragment's content.
C8_BoundedPreview ==
    Prompted =>
        \A i \in 1..Len(text_chunks) :
            Len(text_chunks[i].content) > 500 =>
                ~Occurs(citation_context, SubSeq(text_chunks[i].content, 1, 501))

TextHeader(chunk) ==
    BareMarker(chunk.citation_num) \o <<" (from ">>
        \o <<IF "filename" \in DOMAIN chunk.metadata
             THEN chunk.metadata["filename"] ELSE "unknown">>
        \o <<", page ">>
        \o (IF "page_idx" \in DOMAIN chunk.metadata
            THEN Dec(chunk.metadata["page_idx"]) ELSE <<"?">>)
        \o <<"):", "\n">>

ImageEntry(chunk) ==
    <<"[", "Source ">> \o Dec(chunk.citation_num) \o <<":", " ">>
        \o <<IF "filename" \in DOMAIN chunk.metadata
             THEN chunk.metadata["filename"] ELSE "unknown">>
        \o <<", page ">>
        \o (IF "page_idx" \in DOMAIN chunk.metadata
            THEN Dec(chunk.metadata["page_idx"]) ELSE <<"?">>)
        \o <<"]", "\n">>
        \o <<IF "type" \in DOMAIN chunk.metadata
             THEN (IF chunk.metadata["type"] = "table" THEN "Table" ELSE "Image")
             ELSE "Image">>
        \o <<" available for reference.">>

RECURSIVE SumLen(_)
SumLen(parts) == IF parts = <<>> THEN 0 ELSE Len(Head(parts)) + SumLen(Tail(parts))

\* C8 amended: the reference block holds the full content of every text
\* fragment after its header, whatever its length, and for a non-text
\* fragment only the entry naming its number, file, page and type.
C8_FullContent ==
    Prompted =>
        LET entries ==
                [i \in 1..Len(text_chunks) |->
                    TextHeader(text_chunks[i]) \o text_chunks[i].content]
                \o [i \in 1..Len(image_chunks) |-> ImageEntry(image_chunks[i])]
        IN  /\ \A k \in 1..Len(entries) : Occurs(citation_context, entries[k])
            /\ Len(citation_context) =
                  SumLen(entries)
                    + (IF entries = <<>> THEN 0
                       ELSE (Len(entries) - 1) * Len(ContextSeparator))

\* a text fragment longer than 500 characters next to a non-text fragment
C8_Witness ==
    /\ Prompted
    /\ \E i \in 1..Len(text_chunks) : Len(text_chunks[i].content) > 500
    /\ image_chunks # <<>>

(***************************************************************************)
(* Claims about the numbers shown to the user.                             *)
(***************************************************************************)
\* the numbers citation_num of the fragments of two lists, in list order
NumsOf(texts, images) ==
    [i \in 1..Len(texts) |-> texts[i].citation_num]
        \o [i \in 1..Len(images) |-> images[i].citation_num]

\* the numbers n of the headings "**[n] ..." of a text, in order
HeadingNumbers(s) ==
    LET at == {i \in 1..Len(s) : s[i] = "**["}
        pos(k) == CHOOSE i \in at : Cardinality({j \in at : j <= i}) = k
    IN  [k \in 1..Cardinality(at) |->
            ParseInt(SubSeq(s, pos(k) + 1, DigitsEnd(s, pos(k) + 1) - 1))]

\* every record carries the number of the fragment it was made from
RecordsNumbered(records, texts, images) ==
    \A k \in 1..Len(records) :
        \/ \E i \in 1..Len(texts) :
              /\ texts[i].chunk_id = records[k].chunk_id
              /\ texts[i].citation_num = records[k].num
        \/ \E i \in 1..Len(images) :
              /\ images[i].chunk_id = records[k].chunk_id
              /\ images[i].citation_num = records[k].num

\* the numbers are those of C4 and the same in every place they are shown
SameNumberEverywhere ==
    /\ Prompted =>
          /\ \A i \in 1..Len(text_chunks) :
                Occurs(citation_context, TextHeader(text_chunks[i]))
          /\ \A i \in 1..Len(image_chunks) :
                Occurs(citation_context, ImageEntry(image_chunks[i]))
    /\ (vpc = "chat" /\ qpc \in {"responded", "extracted"}) =>
          HeadingNumbers(Flatten(rendered_sources))
              = NumsOf(text_chunks, image_chunks)
    /\ Extracted => RecordsNumbered(citations_used, text_chunks, image_chunks)
    /\ (vpc = "chat" /\ qpc = "done") =>
          LET m == messages[Len(messages)]
          IN  /\ HeadingNumbers(m.sources) = NumsOf(m.text_chunks, m.image_chunks)
              /\ RecordsNumbered(m.citations, m.text_chunks, m.image_chunks)
              /\ \A i \in 1..Len(m.text_chunks) : m.text_chunks[i].citation_num = i
              /\ \A i \in 1..Len(m.image_chunks) :
                    m.image_chunks[i].citation_num = Len(m.text_chunks) + i

\* no step of the query after the retrieval changes the fragments
NeverRenumbered ==
    /\ (vpc = "chat" /\ qpc \in {"retrieved", "prompted", "responded"}) =>
          (text_chunks' = text_chunks /\ image_chunks' = image_chunks)
    /\ (vpc = "chat" /\ qpc = "extracted") =>
          /\ messages'[Len(messages')].text_chunks = text_chunks
          /\ messages'[Len(messages')].image_chunks = image_chunks
          /\ messages'[Len(messages')].citations = citations_used

\* C13: after get_knowledge no step changes a fragment's citation number,
\* and the number shown for the fragment in the list of retrieved sources
\* and in the history block is the citation_num of the reference block and
\* of the citation records.
C13_StableCitationNumber ==
    []SameNumberEverywhere /\ [][NeverRenumbered]_vars

\* a saved query with five fragments, some of them cited
C13_Witness ==
    /\ vpc = "chat"
    /\ qpc = "done"
    /\ Len(messages[Len(messages)].text_chunks) = 3
    /\ Len(messages[Len(messages)].image_chunks) = 2
    /\ messages[Len(messages)].citations # <<>>

(***************************************************************************)
(* Claims about the fields of the citation records.                        *)
(***************************************************************************)
\* the value of a metadata field, or the default when the field is missing
FieldOr(meta, field, default) ==
    IF field \in DOMAIN meta THEN meta[field] ELSE default

FirstChars(s, n) == SubSeq(s, 1, IF Len(s) < n THEN Len(s) ELSE n)

RecordFields == {"num", "type", "filename", "page_idx", "chunk_id", "preview"}

TextRecordOf(record, chunk) ==
    /\ DOMAIN record = RecordFields
    /\ record.num = chunk.citation_num
    /\ record.chunk_id = chunk.chunk_id
    /\ record.filename = FieldOr(chunk.metadata, "filename", "unknown")
    /\ record.page_idx = FieldOr(chunk.metadata, "page_idx", 0)
    /\ record.type = "text"
    /\ record.preview = FirstChars(chunk.content, 200)

ImageRecordOf(record, chunk) ==
    /\ DOMAIN record = RecordFields
    /\ record.num = chunk.citation_num
    /\ record.chunk_id = chunk.chunk_id
    /\ record.filename = FieldOr(chunk.metadata, "filename", "unknown")
    /\ record.page_idx = FieldOr(chunk.metadata, "page_idx", 0)
    /\ record.type = FieldOr(chunk.metadata, "type", "image")
    /\ record.preview =
          <<FieldOr(chunk.metadata, "type", "image"), " on page ">>
              \o (IF "page_idx" \in DOMAIN chunk.metadata
                  THEN Dec(chunk.metadata["page_idx"]) ELSE <<"?">>)

\* C14: a record carries the fragment's num, filename, page_idx and id; its
\* type is "text" for a text fragment and else the declared type (default
\* "image"); its preview is the first 200 characters of a text fragment's
\* content and "<type> on page <page_idx>" for a non-text fragment.
C14_RecordFields ==
    Extracted =>
        \A k \in 1..Len(citations_used) :
            \/ \E i \in 1..Len(text_chunks) :
                  /\ text_chunks[i].citation_num = citations_used[k].num
                  /\ TextRecordOf(citations_used[k], text_chunks[i])
            \/ \E i \in 1..Len(image_chunks) :
                  /\ image_chunks[i].citation_num = citations_used[k].num
                  /\ ImageRecordOf(citations_used[k], image_chunks[i])

\* a cited text fragment longer than 200 characters next to a cited table
C14_Witness ==
    /\ Extracted
    /\ \E k \in 1..Len(citations_used) :
          /\ citations_used[k].type = "text"
          /\ Len(citations_used[k].preview) = 200
    /\ \E k \in 1..Len(citations_used) :
          /\ citations_used[k].type = "table"
          /\ citations_used[k].preview = <<"table", " on page ", "4">>

(***************************************************************************)
(* Claims about malformed metadata and empty retrieval.                    *)
(***************************************************************************)
\* the metadata of a fragment when it has one that is a dict
HasDict(chunk) == "metadata" \in DOMAIN chunk /\ "NoneType" \notin DOMAIN chunk.metadata
DictOf(chunk) == IF HasDict(chunk) THEN chunk.metadata ELSE [k \in {} |-> k]

\* the entry of a text fragment in the reference block, with the defaults
DefaultedTextEntry(chunk) ==
    BareMarker(chunk.citation_num) \o <<" (from ">>
        \o <<FieldOr(DictOf(chunk), "filename", "unknown")>>
        \o <<", page ">>
        \o (IF "page_idx" \in DOMAIN DictOf(chunk)
            THEN Dec(DictOf(chunk)["page_idx"]) ELSE <<"?">>)
        \o <<"):", "\n">> \o chunk.content

\* the first line of the entry of a non-text fragment, with the defaults
DefaultedImageHeader(chunk) ==
    <<"[", "Source ">> \o Dec(chunk.citation_num) \o <<":", " ">>
        \o <<FieldOr(DictOf(chunk), "filename", "unknown")>>
        \o <<", page ">>
        \o (IF "page_idx" \in DOMAIN DictOf(chunk)
            THEN Dec(DictOf(chunk)["page_idx"]) ELSE <<"?">>)
        \o <<"]", "\n">>

DefaultedRecord(record, chunk, text) ==
    /\ record.filename = FieldOr(DictOf(chunk), "filename", "unknown")
    /\ record.page_idx = FieldOr(DictOf(chunk), "page_idx", 0)
    /\ record.type = IF text THEN "text" ELSE FieldOr(DictOf(chunk), "type", "image")

ContextDefaults ==
    /\ \A i \in 1..Len(text_chunks) :
          Occurs(citation_context, DefaultedTextEntry(text_chunks[i]))
    /\ \A i \in 1..Len(image_chunks) :
          Occurs(citation_context, DefaultedImageHeader(image_chunks[i]))

RecordDefaults ==
    \A k \in 1..Len(citations_used) :
        \/ \E i \in 1..Len(text_chunks) :
              /\ text_chunks[i].citation_num = citations_used[k].num
              /\ DefaultedRecord(citations_used[k], text_chunks[i], TRUE)
        \/ \E i \in 1..Len(image_chunks) :
              /\ image_chunks[i].citation_num = citations_used[k].num
              /\ DefaultedRecord(citations_used[k], image_chunks[i], FALSE)

\* C15: whatever is missing from a fragment's metadata, and also when the
\* metadata is absent or null, create_citation_context and
\* extract_citations_from_response return without raising and use the
\* defaults "unknown", 0 (records) or "?" (rendered text), and "image".
C15_MetadataDefaults ==
    vpc = "cite" =>
        /\ qpc \notin {"context_raised", "prompt_raised", "extract_raised"}
        /\ qpc \in {"context_returned", "prompt_returned"} => ContextDefaults
        /\ qpc = "extract_returned" => RecordDefaults

\* C16: with both fragment lists empty, create_citation_context returns the
\* empty string, build_prompt_with_citations returns a prompt containing
\* the question, and extract_citations_from_response returns no record for
\* any response text; none of them raises.
C16_EmptyRetrieval ==
    (vpc = "cite" /\ text_chunks = <<>> /\ image_chunks = <<>>) =>
        /\ qpc \notin {"context_raised", "prompt_raised", "extract_raised"}
        /\ qpc = "context_returned" => citation_context = <<>>
        /\ qpc = "prompt_returned" =>
              /\ citation_context = <<>>
              /\ Occurs(complete_prompt, question)
        /\ qpc = "extract_returned" => citations_used = <<>>

\* no fragment, the prompt was built and a response citing [1] was read
C16_Witness ==
    /\ vpc = "cite"
    /\ text_chunks = <<>>
    /\ image_chunks = <<>>
    /\ qpc = "extract_returned"
    /\ complete_prompt # <<>>
    /\ display_response = <<"[", "1", "]">>

(***************************************************************************)
(* Claims about the session histories.                                     *)
(***************************************************************************)
HistoryOf(store, id) == IF id \in DOMAIN store THEN store[id] ELSE <<>>

IsPrefix(s, t) == Len(s) <= Len(t) /\ SubSeq(t, 1, Len(s)) = s

\* the step is a call of add_referenced_context_to_history for session_id'
OneContextAppended ==
    (vpc = "history" /\ qpc' = "add_context") =>
        LET before == HistoryOf(session_store, session_id')
            after == HistoryOf(session_store', session_id')
        IN  /\ Len(after) = Len(before) + 1
            /\ IsPrefix(before, after)
            /\ \E i \in 1..Len(after[Len(after)].content) :
                  after[Len(after)].content[i]
                      = "REFERENCED CONTEXT FROM RAG RETRIEVAL"
            /\ \A other \in SessionIds \ {session_id'} :
                  HistoryOf(session_store', other) = HistoryOf(session_store, other)

\* no call removes or rewrites a message of any history
HistoriesOnlyGrow ==
    vpc = "history" =>
        \A id \in SessionIds :
            IsPrefix(HistoryOf(session_store, id), HistoryOf(session_store', id))

\* C17: a call add_referenced_context_to_history(session_id, ...) appends
\* exactly one message with the marker REFERENCED CONTEXT FROM RAG RETRIEVAL
\* at the end of that session's history and leaves the earlier messages and
\* the other sessions' histories unchanged; histories only grow.
C17_AppendOnlyHistory ==
    [][OneContextAppended /\ HistoriesOnlyGrow]_vars

\* the context was appended after earlier messages of the same session
\* while another session has a history of its own
C17_Witness ==
    /\ vpc = "history"
    /\ qpc = "add_context"
    /\ session_id \in DOMAIN session_store
    /\ Len(session_store[session_id]) >= 2
    /\ \E other \in DOMAIN session_store \ {session_id} :
          session_store[other] # <<>>

(***************************************************************************)
(* Claims about concurrent clients of the chunk viewer.                    *)
(***************************************************************************)
\* the mappings of all the stored fragments against the document d alone
MappingsFor(d) ==
    map_chunks_to_document(d, TextChunksOf(textdb) \o ImgChunksOf(imgdb))

\* C18: whatever the interleaving of the requests of two clients, each read
\* returns segments and mappings computed from the single document that
\* the reading client's own load supplied.
C18_ReadsOwnDocument ==
    (vpc = "viewer_shared" /\ response.kind \in {"document", "chunks"}) =>
        LET d == req[response.client].markdown_content
        IN  IF response.kind = "document"
            THEN response.body = get_highlighted_document(d, MappingsFor(d))
            ELSE response.body = get_chunks_data(MappingsFor(d))

(***************************************************************************)
(* Claims about the highlight loop.                                        *)
(***************************************************************************)
\* C19: from one iteration of the highlight loop to the next, over the valid
\* spans sorted by start, last_end never decreases, in the Flask viewer and
\* in the Streamlit viewer alike.
C19_LastEndNeverDecreases ==
    [][(hl.pc = "loop" /\ hl'.pc = "loop") => hl'.last_end >= hl.last_end]_vars

\* the loop of the Flask viewer always ends with the segments of the whole
\* function, so the iterations above are those of get_highlighted_document
HighlightStepsAgree ==
    (vpc = "highlight" /\ hl.pc = "done" /\ hl.impl = "flask"
        /\ chunk_mappings # <<>>) =>
        hl.out = get_highlighted_document(original_text, chunk_mappings).segments

(***************************************************************************)
(* Claims about the bracketing tier of the span locator.                   *)
(***************************************************************************)
\* the two probes of the bracketing tier succeed at f and at l
ProbesAt(text, first, last, f, l) ==
    /\ Earliest(text, first, 0, f)
    /\ Earliest(text, last, f + Len(first), l)

ProbesSucceed(text, first, last) ==
    \E f \in 0..Len(text) : \E l \in 0..Len(text) :
        ProbesAt(text, first, last, f, l)

BracketingHolds(text, frag, loc, first, last, prefix) ==
    ~Occurs(text, frag) =>
        IF HasNl(frag) /\ ProbesSucceed(text, first, last)
        THEN \A f \in 0..Len(text) : \A l \in 0..Len(text) :
                ProbesAt(text, first, last, f, l) =>
                    /\ loc.start_pos = f
                    /\ loc.end_pos = l + Len(last)
                    /\ loc.match_score = 8
        ELSE /\ loc.match_score # 8
             /\ PrefixHit(text, prefix) =>
                   (loc.match_score = 6 /\ Earliest(text, prefix, 0, loc.start_pos))
             /\ ~PrefixHit(text, prefix) => Sentinel(loc)

\* C20: when the exact match fails and the trimmed fragment has at least
\* two lines whose trimmed first line is found at f and whose trimmed last
\* line is found at l, searching from f + len(first line), the result is the
\* span [f, l + len(last line)) with score 0.8; with a single line, or when
\* a probe fails, the result is not of the bracketing tier: it is the one
\* of the prefix tier, or the sentinel.
C20_BracketingTier ==
    HasLocated =>
        BracketingHolds(original_text, Fragment, located,
            Trimmed(FirstLineOf(Fragment)), Trimmed(LastLineOf(Fragment)),
            PrefixOf(Fragment))

\* the bracketing tier placed the fragment although the last line also
\* occurs before the end of the first line's occurrence
C20_Witness ==
    /\ HasLocated
    /\ located.match_score = 8
    /\ \E i \in 0..(located.start_pos
                      + Len(Trimmed(FirstLineOf(Fragment))) - 1) :
          MatchAt(original_text, Trimmed(LastLineOf(Fragment)), i)

\* a two-line fragment whose last-line probe fails is left to the later tiers
C20_ProbeFails ==
    /\ HasLocated
    /\ HasNl(Fragment)
    /\ ~Occurs(original_text, Fragment)
    /\ Occurs(original_text, Trimmed(FirstLineOf(Fragment)))
    /\ Occurs(original_text, Trimmed(LastLineOf(Fragment)))
    /\ located.match_score # 8

(***************************************************************************)
(* Claims about the prefix tier of the span locator.                       *)
(***************************************************************************)
PrefixTierHolds(text, frag, loc, first, last, prefix) ==
    /\ frag # <<>> => prefix # <<>>
    /\ (~Occurs(text, frag) /\ ~(HasNl(frag) /\ ProbesSucceed(text, first, last))) =>
          IF PrefixHit(text, prefix)
          THEN \A p \in 0..Len(text) :
                  Earliest(text, prefix, 0, p) =>
                      /\ loc.match_score = 6
                      /\ loc.start_pos = p
                      /\ loc.end_pos = Min(p + Len(frag), Len(text))
          ELSE Sentinel(loc)

\* C21: when the exact and the bracketing tiers fail and the first 50
\* characters of the trimmed fragment, trimmed again, are non-empty and
\* found at p, the result has score 0.6, start p and end
\* min(p + len(trimmed fragment), len(document)); a non-empty fragment always
\* has a non-empty prefix, so the tier is attempted whenever it is reached.
C21_PrefixTier ==
    HasLocated =>
        PrefixTierHolds(original_text, Fragment, located,
            Trimmed(FirstLineOf(Fragment)), Trimmed(LastLineOf(Fragment)),
            PrefixOf(Fragment))

\* the prefix is found after the start of the document, the estimated end
\* is before the end of the document, and the content had whitespace around
C21_Witness ==
    /\ HasLocated
    /\ located.match_score = 6
    /\ located.start_pos > 0
    /\ located.end_pos < Len(original_text)
    /\ Len(stored_chunks[1].content) > Len(Fragment)

\* the estimated end lies beyond the document and is clamped
C21_Clamped ==
    /\ HasLocated
    /\ located.match_score = 6
    /\ located.start_pos + Len(Fragment) > Len(original_text)
    /\ located.end_pos = Len(original_text)

(***************************************************************************)
(* Claims about the answer text of a query.                                *)
(***************************************************************************)
\* C22: every bare marker [n] of the response given to
\* clean_response_citations is still a marker of the text it returns.
C22_MarkersKept ==
    [][(vpc = "answer" /\ qpc = "extracted" /\ qpc' = "cleaned") =>
          CitedNumbers(display_response) \subseteq CitedNumbers(display_response')]_vars

\* the text of s after its first </think>
AfterFirstClose(s) ==
    LET first == CHOOSE i \in 0..Len(s) :
                    /\ MatchAt(s, ThinkClose, i)
                    /\ \A j \in 0..(i - 1) : ~MatchAt(s, ThinkClose, j)
    IN  SubSeq(s, first + Len(ThinkClose) + 1, Len(s))

\* the stream contained </think> and display_response has been taken from it
AnswerSeparated ==
    /\ vpc = "answer"
    /\ qpc \in {"responded", "extracted"}
    /\ Occurs(stream.full_response, ThinkClose)

\* C23 as stated: once the stream contains </think>, the text handed to the
\* extractor is exactly the text after the first </think>.
C23_ExtractorInputExact ==
    AnswerSeparated => display_response = AfterFirstClose(stream.full_response)

\* C23: once the stream contains </think>, the text handed to the extractor
\* is the text after the first </think> without its leading and trailing
\* whitespace, whatever the chunks the stream came in, and every record
\* extracted has its marker in that text: a marker that occurs only inside
\* the thinking block gives no record.
C23_ExtractorInputTrimmed ==
    AnswerSeparated =>
        /\ display_response = Trimmed(AfterFirstClose(stream.full_response))
        /\ qpc = "extracted" =>
              \A k \in 1..Len(citations_used) :
                  citations_used[k].num
                      \in CitedNumbers(AfterFirstClose(stream.full_response))

\* [1] is cited inside the thinking block only, fragment 1 exists, the
\* answer follows </think> after a newline and no record is extracted
C23_Witness ==
    /\ AnswerSeparated
    /\ qpc = "extracted"
    /\ text_chunks # <<>>
    /\ 1 \in CitedNumbers(stream.full_response)
    /\ 1 \notin CitedNumbers(AfterFirstClose(stream.full_response))
    /\ display_response # <<>>
    /\ display_response # AfterFirstClose(stream.full_response)
    /\ citations_used = <<>>

(***************************************************************************)
(* Claims about the model parameters.                                      *)
(***************************************************************************)
InRange(lo, x, hi) == x.kind = "num" /\ x.v \in lo..hi
TemperatureOk(c) == InRange(0, c.temperature, 20)
TopPOk(c) == InRange(0, c.top_p, 10)
TopKOk(c) == c.top_k \in 1..100
AllOk(c) == TemperatureOk(c) /\ TopPOk(c) /\ TopKOk(c)

FirstViolation(c) ==
    IF ~TemperatureOk(c) THEN "Temperature must be between 0.0 and 2.0"
    ELSE IF ~TopPOk(c) THEN "Top-p must be between 0.0 and 1.0"
    ELSE "Top-k must be between 1 and 100"

\* C24: validate_parameters reports valid exactly when temperature is in
\* [0.0, 2.0], top_p in [0.0, 1.0] and top_k in [1, 100], and otherwise gives
\* the message of the first violated range in the order temperature, top_p,
\* top_k; get_prompted_model_with_params raises ValueError and builds no
\* model exactly when the validation fails.
C24_ParametersValidated ==
    /\ (vpc = "params" /\ called.op = "validate_parameters") =>
          /\ called.result[1] = AllOk(called)
          /\ AllOk(called) => called.result[2] = ""
          /\ ~AllOk(called) => called.result[2] = FirstViolation(called)
    /\ (vpc = "params" /\ called.op = "get_prompted_model_with_params") =>
          /\ (called.result.raised = "ValueError") = ~AllOk(called)
          /\ (called.result.model = None) = ~AllOk(called)
          /\ AllOk(called) =>
                /\ called.result.raised = "none"
                /\ called.result.model.temperature = called.temperature
                /\ called.result.model.top_p = called.top_p
                /\ called.result.model.top_k = called.top_k

\* a NaN temperature with top_p and top_k out of range as well is refused
\* with the message of the temperature
C24_Witness ==
    /\ vpc = "params"
    /\ called.op = "get_prompted_model_with_params"
    /\ called.temperature = NaN
    /\ ~TopPOk(called)
    /\ ~TopKOk(called)
    /\ called.result.raised = "ValueError"
    /\ called.result.message[2] = "Temperature must be between 0.0 and 2.0"

(***************************************************************************)
(* Claims about the chat sessions.                                         *)
(***************************************************************************)
CreateStep == vpc = "sessions" /\ called'.op = "create_session"

\* C25: create_session adds the new chat under an index that was not a key
\* of chat_sessions: the number of chats grows by one and every chat there
\* was is still there with its message list.
C25_CreateNeverReplaces ==
    [][CreateStep =>
          /\ current_chat_index' \notin Keys(chat_sessions)
          /\ Len(chat_sessions') = Len(chat_sessions) + 1
          /\ \A i \in Keys(chat_sessions) :
                /\ i \in Keys(chat_sessions')
                /\ Chat(chat_sessions', i).messages = Chat(chat_sessions, i).messages
                /\ lists'[Chat(chat_sessions', i).messages]
                      = lists[Chat(chat_sessions, i).messages]]_vars

\* C26: the session id of a chat made by create_session has no message in
\* the session store when the chat is created.
C26_NewSessionEmptyHistory ==
    [][CreateStep =>
          HistoryOf(session_store',
                    Chat(chat_sessions', current_chat_index').session_id) = <<>>]_vars

\* C27: current_chat_index is a key of chat_sessions and
\* st.session_state.messages is the message list of the current chat.
C27_CurrentSessionConsistent ==
    vpc = "sessions" =>
        /\ current_chat_index \in Keys(chat_sessions)
        /\ messages = Chat(chat_sessions, current_chat_index).messages
        /\ messages \in DOMAIN lists
        /\ \A i, j \in 1..Len(chat_sessions) :
              chat_sessions[i].index = chat_sessions[j].index => i = j

\* the current chat was deleted while another chat, with messages, existed:
\* that chat is current now and its messages are shown
C27_Witness ==
    /\ vpc = "sessions"
    /\ called.op = "delete_session"
    /\ called.raised = "none"
    /\ called.index > current_chat_index
    /\ lists[messages] # <<>>
    /\ Len(chat_sessions) = 1

\* C28: after delete_session(i), i is not a key of chat_sessions and there
\* is at least one chat, also when i was the only chat.
C28_DeletedAndOneLeft ==
    (vpc = "sessions" /\ called.op = "delete_session") =>
        /\ called.index \notin Keys(chat_sessions)
        /\ Len(chat_sessions) >= 1

(***************************************************************************)
(* Claims about failed loads in the chunk viewer.                          *)
(***************************************************************************)
\* C29: after any sequence of /api/load requests, failed ones included, what
\* /api/document and /api/chunks serve was computed against the document
\* text that is loaded now.
C29_MappingsOfCurrentDocument ==
    /\ (vpc = "viewer" /\ response.kind = "document") =>
          \E ms \in {<<>>, MappingsFor(original_text)} :
              response.body = get_highlighted_document(original_text, ms)
    /\ (vpc = "viewer" /\ response.kind = "chunks") =>
          \E ms \in {<<>>, MappingsFor(original_text)} :
              response.body = get_chunks_data(ms)

\* after a failed load of "CDEFG" the document is served with a span
\* computed for the document loaded before, which ends beyond its end
C29_StaleSpanServed ==
    /\ vpc = "viewer"
    /\ response.kind = "document"
    /\ original_text = Doc2
    /\ "segments" \in DOMAIN response.body
    /\ \E k \in 1..Len(response.body.segments) :
          /\ response.body.segments[k].type = "chunk"
          /\ response.body.segments[k].end > Len(original_text)

(***************************************************************************)
(* Claims about the shape of the mappings.                                 *)
(***************************************************************************)
Unpositioned(m) == m.start_pos = -1 /\ m.end_pos = -1

\* C30: after map_chunks_to_document every mapping is unpositioned
\* (start = end = -1) or a non-empty span inside the document,
\* 0 <= start < end <= len(document), also for a fragment whose content is
\* whitespace only; a text fragment is unpositioned exactly when its score
\* is 0.0.
C30_SpanShape ==
    (vpc = "viewer" /\ response.kind = "load" /\ response.success) =>
        \A k \in 1..Len(chunk_mappings) :
            LET m == chunk_mappings[k]
            IN  /\ \/ Unpositioned(m)
                   \/ /\ 0 <= m.start_pos
                      /\ m.start_pos < m.end_pos
                      /\ m.end_pos <= Len(original_text)
                /\ m.stored_chunk.chunk_type = "text" =>
                      (Unpositioned(m) <=> m.match_score = 0)

====